---- MODULE Spec2Model ----
(***************************************************************************)
(* The Wizard rules engine (src/src/game_logic): Card, Deck, Apprentice,   *)
(* Trick and Round.  Every method is an operator from the state before the *)
(* call to the state after it together with what the call returns or       *)
(* raises; every Round operation is an action that applies its operator.   *)
(* A rejected call leaves a stuttering step.                               *)
(*                                                                         *)
(* Specifications: Spec drives a Round through its operations; DealSpec   *)
(* deals a Round of any round number; TrickSpec drives one Trick directly, *)
(* as tests/game_logic/test_trick.py does; ScoreSpec and HandSpec use one  *)
(* Apprentice directly (points, hand); CardSpec calls Card.is_higher_than; *)
(* LiveSpec is Spec with players who keep playing; GameSpec drives a Game  *)
(* through all its rounds.                                                 *)
(***************************************************************************)
EXTENDS Integers, Sequences, FiniteSets, TLC

\* round, apprentices: the Round and its roster.  trick: the Trick that is
\* driven directly (None where a Round owns the tricks).  returned: the last
\* value a direct call returned (NoCall where the Round's operations are the
\* actions).  game: the Game that owns the round (None where the Round is
\* driven directly); under GameSpec round is Game.current_round, None before
\* the first round.
VARIABLES round, apprentices, trick, returned, game

vars == <<round, apprentices, trick, returned, game>>

(***************************************************************************)
(* Bounds and program constants.                                           *)
(***************************************************************************)
\* Rounds 1..MaxRound are played (round_number, the cards per apprentice).
MaxRound == 2

\* ScoreSpec: predictions and tricks won run over 0..MaxCount.
MaxCount == 6

\* TrickSpec: the players of the Trick that is driven directly.
MaxTrickPlayers == 4

\* HandSpec: the cards of the hand that is used directly.
MaxHand == 3

\* The roster: the smallest one Game accepts (game.py, "Wizard requires 3-6").
MinApprentices == 3

\* Regular cards run 1..13 in each colour; 4 Wizards; 4 Fools.
MaxValue == 13
NumWizards == 4
NumFools == 4

n == MinApprentices
Seats == 0 .. (n - 1)

(***************************************************************************)
(* Python values.  Optional[X] is <<>> (None) or <<x>>; an Optional colour *)
(* is the string "None" or a CardColor name ("NONE" is CardColor.NONE, the *)
(* colour of the special cards, which is not Python's None).               *)
(***************************************************************************)
None == <<>>
Some(x) == <<x>>
Get(o) == o[1]
PyNone == "None"

\* No direct call has returned yet.
NoCall == [called |-> "", value |-> None]

RegularColors == <<"HUMANS", "ELVES", "DWARVES", "GIANTS">>
CardColor == {RegularColors[i] : i \in 1..Len(RegularColors)} \cup {"NONE"}

RoundPhase == <<"DEALING", "PREDICTING", "PLAYING", "SCORING", "COMPLETE">>

(***************************************************************************)
(* Card.  A card object is named by its position in the order in which     *)
(* Deck._initialize_cards creates the cards: 0..51 are the Regular cards   *)
(* (colour by colour, values 1..13), then the Wizards, then the Fools.     *)
(***************************************************************************)
NumRegular == Len(RegularColors) * MaxValue
NumCards == NumRegular + NumWizards + NumFools
Cards == 0 .. (NumCards - 1)

Regular(col, v) ==
    MaxValue * ((CHOOSE i \in 1..Len(RegularColors) : RegularColors[i] = col) - 1) + (v - 1)
Wizard(k) == NumRegular + (k - 1)
Fool(k) == NumRegular + NumWizards + (k - 1)

card_type(c) ==
    IF c < NumRegular THEN "REGULAR"
    ELSE IF c < NumRegular + NumWizards THEN "WIZARD"
    ELSE "FOOL"

color(c) ==
    IF card_type(c) = "REGULAR" THEN RegularColors[(c \div MaxValue) + 1] ELSE "NONE"

value(c) == (c % MaxValue) + 1

\* Mutant: Regular cards are compared by value alone.
is_higher_than_by_value(self, other, trump_color, led_color) ==
    IF card_type(self) = "WIZARD" THEN TRUE
    ELSE IF card_type(other) = "WIZARD" THEN FALSE
    ELSE IF card_type(self) = "FOOL" THEN FALSE
    ELSE IF card_type(other) = "FOOL" THEN TRUE
    ELSE value(self) > value(other)

\* Mutant: the test of the other card for a Fool comes first, so a Fool
\* outranks a Fool.
is_higher_than_fool_ties(self, other, trump_color, led_color) ==
    IF card_type(self) = "WIZARD" THEN TRUE
    ELSE IF card_type(other) = "WIZARD" THEN FALSE
    ELSE IF card_type(other) = "FOOL" THEN TRUE
    ELSE IF card_type(self) = "FOOL" THEN FALSE
    ELSE IF color(self) = trump_color /\ color(other) # trump_color THEN TRUE
    ELSE IF color(self) # trump_color /\ color(other) = trump_color THEN FALSE
    ELSE IF color(self) = color(other) THEN value(self) > value(other)
    ELSE IF color(self) = led_color /\ color(other) # led_color THEN TRUE
    ELSE FALSE

\* Mutant: the leading colour gives no rank.
is_higher_than_no_led(self, other, trump_color, led_color) ==
    IF card_type(self) = "WIZARD" THEN TRUE
    ELSE IF card_type(other) = "WIZARD" THEN FALSE
    ELSE IF card_type(self) = "FOOL" THEN FALSE
    ELSE IF card_type(other) = "FOOL" THEN TRUE
    ELSE IF color(self) = trump_color /\ color(other) # trump_color THEN TRUE
    ELSE IF color(self) # trump_color /\ color(other) = trump_color THEN FALSE
    ELSE IF color(self) = color(other) THEN value(self) > value(other)
    ELSE FALSE

is_higher_than(self, other, trump_color, led_color) ==
    IF card_type(self) = "WIZARD" THEN TRUE
    ELSE IF card_type(other) = "WIZARD" THEN FALSE
    ELSE IF card_type(self) = "FOOL" THEN FALSE
    ELSE IF card_type(other) = "FOOL" THEN TRUE
    ELSE IF color(self) = trump_color /\ color(other) # trump_color THEN TRUE
    ELSE IF color(self) # trump_color /\ color(other) = trump_color THEN FALSE
    ELSE IF color(self) = color(other) THEN value(self) > value(other)
    ELSE IF color(self) = led_color /\ color(other) # led_color THEN TRUE
    ELSE FALSE

(***************************************************************************)
(* Deck.                                                                   *)
(***************************************************************************)
Deck_init == [i \in 1..NumCards |-> i - 1]

Range(s) == {s[i] : i \in 1..Len(s)}

\* Mutant: deal returns the top cards and leaves them in the deck.
Deck_deal_keeps_cards(cards, num_cards) ==
    IF num_cards > Len(cards)
    THEN [ret |-> "ValueError", dealt |-> <<>>, cards |-> cards]
    ELSE [ret |-> "ok", dealt |-> SubSeq(cards, 1, num_cards), cards |-> cards]

\* deck.deal(num_cards): <<ret, cards left>>, or ValueError and no change.
Deck_deal(cards, num_cards) ==
    IF num_cards > Len(cards)
    THEN [ret |-> "ValueError", dealt |-> <<>>, cards |-> cards]
    ELSE [ret |-> "ok",
          dealt |-> SubSeq(cards, 1, num_cards),
          cards |-> SubSeq(cards, num_cards + 1, Len(cards))]

\* The loop of deal_to_players: deck.deal(cards_per_player), once per player.
RECURSIVE DealHands(_, _, _)
DealHands(cards, num_players, cards_per_player) ==
    IF num_players = 0 THEN [hands |-> <<>>, cards |-> cards]
    ELSE LET d == Deck_deal(cards, cards_per_player)
             rest == DealHands(d.cards, num_players - 1, cards_per_player)
         IN  [hands |-> <<d.dealt>> \o rest.hands, cards |-> rest.cards]

\* deck.deal_to_players: hands[i + 1] is the hand of player i.
Deck_deal_to_players(cards, num_players, cards_per_player) ==
    IF num_players * cards_per_player > Len(cards)
    THEN [ret |-> "ValueError", hands |-> <<>>, cards |-> cards]
    ELSE LET d == DealHands(cards, num_players, cards_per_player)
         IN  [ret |-> "ok", hands |-> d.hands, cards |-> d.cards]

\* Mutant: the trump card is turned up but stays on the deck.
Deck_draw_trump_card_keeps_card(cards) ==
    IF Len(cards) = 0
    THEN [ret |-> None, cards |-> cards]
    ELSE [ret |-> Some(cards[1]), cards |-> cards]

Deck_draw_trump_card(cards) ==
    IF Len(cards) = 0
    THEN [ret |-> None, cards |-> cards]
    ELSE [ret |-> Some(cards[1]), cards |-> Tail(cards)]

(***************************************************************************)
(* Apprentice: [hand, prediction, tricks_won, experience_points].          *)
(***************************************************************************)
Apprentice_init ==
    [hand |-> <<>>, prediction |-> None, tricks_won |-> 0, experience_points |-> 0]

RemoveAt(s, i) == SubSeq(s, 1, i - 1) \o SubSeq(s, i + 1, Len(s))

\* hand positions are Python's, 0-based: position i is hand[i + 1].
can_follow_color(hand, col) == \E i \in 1..Len(hand) : color(hand[i]) = col

\* Mutant: when the colour can be followed, only its cards are playable.
get_playable_cards_no_specials(hand, led_color) ==
    IF led_color = PyNone \/ ~can_follow_color(hand, led_color)
    THEN 0 .. (Len(hand) - 1)
    ELSE {i \in 0 .. (Len(hand) - 1) : color(hand[i + 1]) = led_color}

\* Mutant: a hand that cannot follow is filtered as well.
get_playable_cards_must_follow(hand, led_color) ==
    IF led_color = PyNone
    THEN 0 .. (Len(hand) - 1)
    ELSE {i \in 0 .. (Len(hand) - 1) :
            color(hand[i + 1]) = led_color \/ color(hand[i + 1]) = "NONE"}

get_playable_cards(hand, led_color) ==
    IF led_color = PyNone \/ ~can_follow_color(hand, led_color)
    THEN 0 .. (Len(hand) - 1)
    ELSE {i \in 0 .. (Len(hand) - 1) :
            color(hand[i + 1]) = led_color \/ color(hand[i + 1]) = "NONE"}

\* Mutant: the played card is returned but stays in the hand.
Apprentice_play_card_keeps_card(a, card_index) ==
    IF card_index < 0 \/ card_index >= Len(a.hand)
    THEN [ret |-> "IndexError", card |-> None, a |-> a]
    ELSE [ret |-> "ok", card |-> Some(a.hand[card_index + 1]), a |-> a]

Apprentice_play_card(a, card_index) ==
    IF card_index < 0 \/ card_index >= Len(a.hand)
    THEN [ret |-> "IndexError", card |-> None, a |-> a]
    ELSE [ret |-> "ok",
          card |-> Some(a.hand[card_index + 1]),
          a |-> [a EXCEPT !.hand = RemoveAt(a.hand, card_index + 1)]]

Apprentice_make_prediction(a, prediction) ==
    IF prediction < 0
    THEN [ret |-> "ValueError", a |-> a]
    ELSE [ret |-> "ok", a |-> [a EXCEPT !.prediction = Some(prediction)]]

win_trick(a) == [a EXCEPT !.tricks_won = @ + 1]

Abs(x) == IF x < 0 THEN -x ELSE x

\* calculate_round_points without the 20 points of a correct prediction.
calculate_round_points_no_bonus(a) ==
    IF a.prediction = None THEN None
    ELSE IF Get(a.prediction) = a.tricks_won
         THEN Some(10 * a.tricks_won)
         ELSE Some((-10) * Abs(Get(a.prediction) - a.tricks_won))

\* calculate_round_points: <<>> stands for the ValueError of a missing prediction.
calculate_round_points(a) ==
    IF a.prediction = None THEN None
    ELSE IF Get(a.prediction) = a.tricks_won
         THEN Some(20 + (10 * a.tricks_won))
         ELSE Some((-10) * Abs(Get(a.prediction) - a.tricks_won))

add_experience_points(a, points) == [a EXCEPT !.experience_points = @ + points]

(***************************************************************************)
(* Trick: [leading_apprentice, trump_color, cards_played, leading_color,   *)
(* winner, is_complete].  cards_played is the insertion-ordered dict, a    *)
(* sequence of [apprentice, card] in play order.                           *)
(***************************************************************************)
Trick_init(leading_apprentice, trump_color) ==
    [leading_apprentice |-> leading_apprentice,
     trump_color |-> trump_color,
     cards_played |-> <<>>,
     leading_color |-> PyNone,
     winner |-> None,
     is_complete |-> FALSE]

HasPlayed(t, a) == \E k \in 1..Len(t.cards_played) : t.cards_played[k].apprentice = a

\* Mutant: only the first card sets the leading colour.
Trick_play_card_first_only(t, a, card) ==
    IF t.is_complete THEN [ret |-> "ValueError", trick |-> t]
    ELSE IF HasPlayed(t, a) THEN [ret |-> "ValueError", trick |-> t]
    ELSE LET led ==
                 IF Len(t.cards_played) = 0
                 THEN (IF card_type(card) = "REGULAR" THEN color(card) ELSE t.leading_color)
                 ELSE t.leading_color
         IN  [ret |-> "True",
              trick |-> [t EXCEPT !.leading_color = led,
                                  !.cards_played =
                                      Append(@, [apprentice |-> a, card |-> card])]]

\* Mutant: any later card sets the leading colour while it is undefined.
Trick_play_card_any_later(t, a, card) ==
    IF t.is_complete THEN [ret |-> "ValueError", trick |-> t]
    ELSE IF HasPlayed(t, a) THEN [ret |-> "ValueError", trick |-> t]
    ELSE LET led ==
                 IF Len(t.cards_played) = 0
                 THEN (IF card_type(card) = "REGULAR" THEN color(card) ELSE t.leading_color)
                 ELSE IF t.leading_color = PyNone
                 THEN (IF card_type(card) = "REGULAR" THEN color(card) ELSE t.leading_color)
                 ELSE t.leading_color
         IN  [ret |-> "True",
              trick |-> [t EXCEPT !.leading_color = led,
                                  !.cards_played =
                                      Append(@, [apprentice |-> a, card |-> card])]]

\* Mutant: play_card without the test for a card already recorded.
Trick_play_card_twice(t, a, card) ==
    IF t.is_complete THEN [ret |-> "ValueError", trick |-> t]
    ELSE LET led ==
                 IF Len(t.cards_played) = 0
                 THEN (IF card_type(card) = "REGULAR" THEN color(card) ELSE t.leading_color)
                 ELSE IF t.leading_color = PyNone /\ Len(t.cards_played) = 1
                 THEN (IF card_type(card) = "REGULAR" THEN color(card) ELSE t.leading_color)
                 ELSE t.leading_color
         IN  [ret |-> "True",
              trick |-> [t EXCEPT !.leading_color = led,
                                  !.cards_played =
                                      Append(@, [apprentice |-> a, card |-> card])]]

Trick_play_card(t, a, card) ==
    IF t.is_complete THEN [ret |-> "ValueError", trick |-> t]
    ELSE IF HasPlayed(t, a) THEN [ret |-> "ValueError", trick |-> t]
    ELSE LET led ==
                 IF Len(t.cards_played) = 0
                 THEN (IF card_type(card) = "REGULAR" THEN color(card) ELSE t.leading_color)
                 ELSE IF t.leading_color = PyNone /\ Len(t.cards_played) = 1
                 THEN (IF card_type(card) = "REGULAR" THEN color(card) ELSE t.leading_color)
                 ELSE t.leading_color
         IN  [ret |-> "True",
              trick |-> [t EXCEPT !.leading_color = led,
                                  !.cards_played =
                                      Append(@, [apprentice |-> a, card |-> card])]]

\* The running best of determine_winner's last loop over plays k..Len(plays);
\* best is 0 (highest_card is None) or the index of the best play so far.
RECURSIVE HighestFrom(_, _, _, _, _)
HighestFrom(plays, k, best, trump_color, leading_color) ==
    IF k > Len(plays) THEN best
    ELSE IF card_type(plays[k].card) = "FOOL"
         THEN HighestFrom(plays, k + 1, best, trump_color, leading_color)
    ELSE IF best = 0
         THEN HighestFrom(plays, k + 1, k, trump_color, leading_color)
    ELSE IF is_higher_than(plays[k].card, plays[best].card, trump_color, leading_color)
         THEN HighestFrom(plays, k + 1, k, trump_color, leading_color)
    ELSE HighestFrom(plays, k + 1, best, trump_color, leading_color)

\* Mutant: the last Wizard played wins.
determine_winner_last_wizard(t) ==
    LET plays == t.cards_played
        Wiz == {k \in 1..Len(plays) : card_type(plays[k].card) = "WIZARD"}
    IN  IF Len(plays) = 0 THEN [ret |-> None, trick |-> t]
        ELSE IF \A k \in 1..Len(plays) : card_type(plays[k].card) = "FOOL"
             THEN [ret |-> Some(plays[1].apprentice), trick |-> t]
        ELSE IF Wiz # {}
             THEN LET k == CHOOSE j \in Wiz : \A m \in Wiz : j >= m
                  IN  [ret |-> Some(plays[k].apprentice),
                       trick |-> [t EXCEPT !.winner = Some(plays[k].apprentice)]]
        ELSE LET b == HighestFrom(plays, 1, 0, t.trump_color, t.leading_color)
                 w == IF b = 0 THEN None ELSE Some(plays[b].apprentice)
             IN  [ret |-> w, trick |-> [t EXCEPT !.winner = w]]

\* Mutant: among Fools only, the last one played wins.
determine_winner_last_fool(t) ==
    LET plays == t.cards_played
        Wiz == {k \in 1..Len(plays) : card_type(plays[k].card) = "WIZARD"}
    IN  IF Len(plays) = 0 THEN [ret |-> None, trick |-> t]
        ELSE IF \A k \in 1..Len(plays) : card_type(plays[k].card) = "FOOL"
             THEN [ret |-> Some(plays[Len(plays)].apprentice), trick |-> t]
        ELSE IF Wiz # {}
             THEN LET k == CHOOSE j \in Wiz : \A m \in Wiz : j <= m
                  IN  [ret |-> Some(plays[k].apprentice),
                       trick |-> [t EXCEPT !.winner = Some(plays[k].apprentice)]]
        ELSE LET b == HighestFrom(plays, 1, 0, t.trump_color, t.leading_color)
                 w == IF b = 0 THEN None ELSE Some(plays[b].apprentice)
             IN  [ret |-> w, trick |-> [t EXCEPT !.winner = w]]

\* Mutant: any Fool (not only Fools) makes the first player win.
determine_winner_any_fool(t) ==
    LET plays == t.cards_played
        Wiz == {k \in 1..Len(plays) : card_type(plays[k].card) = "WIZARD"}
    IN  IF Len(plays) = 0 THEN [ret |-> None, trick |-> t]
        ELSE IF \E k \in 1..Len(plays) : card_type(plays[k].card) = "FOOL"
             THEN [ret |-> Some(plays[1].apprentice), trick |-> t]
        ELSE IF Wiz # {}
             THEN LET k == CHOOSE j \in Wiz : \A m \in Wiz : j <= m
                  IN  [ret |-> Some(plays[k].apprentice),
                       trick |-> [t EXCEPT !.winner = Some(plays[k].apprentice)]]
        ELSE LET b == HighestFrom(plays, 1, 0, t.trump_color, t.leading_color)
                 w == IF b = 0 THEN None ELSE Some(plays[b].apprentice)
             IN  [ret |-> w, trick |-> [t EXCEPT !.winner = w]]

\* Mutant: without a Wizard the first card that is no Fool wins.
determine_winner_first_candidate(t) ==
    LET plays == t.cards_played
        Wiz == {k \in 1..Len(plays) : card_type(plays[k].card) = "WIZARD"}
        Cand == {k \in 1..Len(plays) : card_type(plays[k].card) # "FOOL"}
    IN  IF Len(plays) = 0 THEN [ret |-> None, trick |-> t]
        ELSE IF \A k \in 1..Len(plays) : card_type(plays[k].card) = "FOOL"
             THEN [ret |-> Some(plays[1].apprentice), trick |-> t]
        ELSE IF Wiz # {}
             THEN LET k == CHOOSE j \in Wiz : \A m \in Wiz : j <= m
                  IN  [ret |-> Some(plays[k].apprentice),
                       trick |-> [t EXCEPT !.winner = Some(plays[k].apprentice)]]
        ELSE LET b == CHOOSE j \in Cand : \A m \in Cand : j <= m
                 w == Some(plays[b].apprentice)
             IN  [ret |-> w, trick |-> [t EXCEPT !.winner = w]]

\* determine_winner: what it returns (an Optional apprentice) and the trick
\* after it (self.winner is assigned on the Wizard and the highest-card paths).
determine_winner(t) ==
    LET plays == t.cards_played
        Wiz == {k \in 1..Len(plays) : card_type(plays[k].card) = "WIZARD"}
    IN  IF Len(plays) = 0 THEN [ret |-> None, trick |-> t]
        ELSE IF \A k \in 1..Len(plays) : card_type(plays[k].card) = "FOOL"
             THEN [ret |-> Some(plays[1].apprentice), trick |-> t]
        ELSE IF Wiz # {}
             THEN LET k == CHOOSE j \in Wiz : \A m \in Wiz : j <= m
                  IN  [ret |-> Some(plays[k].apprentice),
                       trick |-> [t EXCEPT !.winner = Some(plays[k].apprentice)]]
        ELSE LET b == HighestFrom(plays, 1, 0, t.trump_color, t.leading_color)
                 w == IF b = 0 THEN None ELSE Some(plays[b].apprentice)
             IN  [ret |-> w, trick |-> [t EXCEPT !.winner = w]]

\* Mutant: is_valid_play without the clause for Wizards and Fools.
is_valid_play_no_specials(t, hand, card) ==
    IF t.leading_color = PyNone THEN TRUE
    ELSE IF Len(t.cards_played) > 0 /\ card_type(t.cards_played[1].card) = "WIZARD" THEN TRUE
    ELSE IF color(card) # t.leading_color /\ can_follow_color(hand, t.leading_color) THEN FALSE
    ELSE TRUE

\* is_valid_play(apprentice, card), with the apprentice's hand.
is_valid_play(t, hand, card) ==
    IF t.leading_color = PyNone THEN TRUE
    ELSE IF card_type(card) \in {"WIZARD", "FOOL"} THEN TRUE
    ELSE IF Len(t.cards_played) > 0 /\ card_type(t.cards_played[1].card) = "WIZARD" THEN TRUE
    ELSE IF color(card) # t.leading_color /\ can_follow_color(hand, t.leading_color) THEN FALSE
    ELSE TRUE

\* Mutant: the winner's trick is not counted.
complete_trick_not_counted(t, aps) ==
    LET d == determine_winner([t EXCEPT !.is_complete = TRUE])
    IN  [ret |-> d.ret, trick |-> d.trick, apprentices |-> aps]

\* Mutant: the winner's trick is counted twice.
complete_trick_counted_twice(t, aps) ==
    LET d == determine_winner([t EXCEPT !.is_complete = TRUE])
    IN  [ret |-> d.ret,
         trick |-> d.trick,
         apprentices |-> IF d.ret = None THEN aps
                         ELSE [aps EXCEPT ![Get(d.ret)] = win_trick(win_trick(@))]]

\* complete_trick on the roster aps: the flag, the winner, winner.win_trick().
complete_trick(t, aps) ==
    LET d == determine_winner([t EXCEPT !.is_complete = TRUE])
    IN  [ret |-> d.ret,
         trick |-> d.trick,
         apprentices |-> IF d.ret = None THEN aps
                         ELSE [aps EXCEPT ![Get(d.ret)] = win_trick(@)]]

(***************************************************************************)
(* Round.  The state of the program is S = [round, apprentices]: the Round *)
(* object and the roster it shares with its caller, apprentices[0..n-1].   *)
(* Each operation yields [ret, round, apprentices].                        *)
(***************************************************************************)
Round_init(round_number, dealer_index) ==
    [round_number |-> round_number,
     dealer_index |-> dealer_index,
     cards_per_apprentice |-> round_number,
     deck |-> Deck_init,
     trump_card |-> None,
     trump_color |-> PyNone,
     current_trick |-> None,
     tricks_played |-> <<>>,
     current_apprentice_index |-> (dealer_index + 1) % n,
     phase |-> "DEALING"]

Result(ret, rnd, aps) == [ret |-> ret, round |-> rnd, apprentices |-> aps]

\* The orders random.shuffle may leave the deck in: the cards of `top`, then
\* the other cards in the order they had.
TopFirst(cards, top) == top \o SelectSeq(cards, LAMBDA c : c \notin Range(top))

Tops ==
    { \* plain colours, a Regular trump card in every round number
      << Regular("HUMANS", 3), Regular("ELVES", 5), Regular("HUMANS", 7),
         Regular("DWARVES", 2), Regular("ELVES", 9), Regular("HUMANS", 1),
         Regular("DWARVES", 4), Regular("GIANTS", 6), Regular("DWARVES", 11),
         Regular("ELVES", 12), Regular("GIANTS", 13), Regular("HUMANS", 10),
         Regular("ELVES", 1) >>,
      \* Wizards and Fools among the hands, a Wizard as trump card
      << Wizard(1), Regular("HUMANS", 5), Fool(1),
         Wizard(2), Regular("ELVES", 2), Regular("HUMANS", 9),
         Wizard(3), Fool(2), Regular("ELVES", 8),
         Wizard(4), Regular("GIANTS", 2), Regular("HUMANS", 2),
         Fool(3) >>,
      \* Fools only in round 1, a Fool as trump card
      << Fool(1), Fool(2), Fool(3),
         Fool(4), Wizard(1), Regular("DWARVES", 6),
         Regular("DWARVES", 9), Regular("GIANTS", 1), Regular("HUMANS", 13),
         Regular("DWARVES", 1), Wizard(2), Regular("GIANTS", 4),
         Regular("ELVES", 3) >>,
      \* a Wizard in the first hand, then hands that can and cannot follow
      << Wizard(1), Regular("GIANTS", 5), Regular("HUMANS", 9),
         Regular("ELVES", 2), Regular("HUMANS", 2), Regular("DWARVES", 4),
         Regular("ELVES", 7), Regular("GIANTS", 1), Regular("DWARVES", 13),
         Regular("ELVES", 11), Regular("GIANTS", 9), Regular("HUMANS", 12),
         Regular("DWARVES", 8) >> }

ShuffleOutcomes(cards) == {TopFirst(cards, top) : top \in Tops}

\* Mutant: the trump colour is the colour of the trump card, whatever its type.
deal_cards_any_trump_card(S, shuffled) ==
    IF S.round.phase # "DEALING" THEN Result("ValueError", S.round, S.apprentices)
    ELSE
    LET d == Deck_deal_to_players(shuffled, n, S.round.cards_per_apprentice)
    IN  IF d.ret = "ValueError"
        THEN Result("ValueError", [S.round EXCEPT !.deck = shuffled], S.apprentices)
        ELSE
        LET aps == [i \in Seats |->
                      [S.apprentices[i] EXCEPT !.hand = @ \o d.hands[i + 1]]]
            t == IF Len(d.cards) > 0 THEN Deck_draw_trump_card(d.cards)
                 ELSE [ret |-> None, cards |-> d.cards]
            tc == IF t.ret = None THEN S.round.trump_color
                  ELSE color(Get(t.ret))
        IN  Result("ok",
                   [S.round EXCEPT !.deck = t.cards,
                                   !.trump_card = t.ret,
                                   !.trump_color = IF Len(d.cards) > 0 THEN tc ELSE PyNone,
                                   !.phase = "PREDICTING"],
                   aps)

deal_cards(S, shuffled) ==
    IF S.round.phase # "DEALING" THEN Result("ValueError", S.round, S.apprentices)
    ELSE
    LET d == Deck_deal_to_players(shuffled, n, S.round.cards_per_apprentice)
    IN  IF d.ret = "ValueError"
        THEN Result("ValueError", [S.round EXCEPT !.deck = shuffled], S.apprentices)
        ELSE
        LET aps == [i \in Seats |->
                      [S.apprentices[i] EXCEPT !.hand = @ \o d.hands[i + 1]]]
            t == IF Len(d.cards) > 0 THEN Deck_draw_trump_card(d.cards)
                 ELSE [ret |-> None, cards |-> d.cards]
            tc == IF t.ret = None THEN S.round.trump_color
                  ELSE IF card_type(Get(t.ret)) = "WIZARD" THEN PyNone
                  ELSE IF card_type(Get(t.ret)) = "FOOL" THEN PyNone
                  ELSE color(Get(t.ret))
        IN  Result("ok",
                   [S.round EXCEPT !.deck = t.cards,
                                   !.trump_card = t.ret,
                                   !.trump_color = IF Len(d.cards) > 0 THEN tc ELSE PyNone,
                                   !.phase = "PREDICTING"],
                   aps)

\* Mutant: set_dealer_chosen_trump without the test of the trump card.
set_dealer_chosen_trump_any_card(S, col) ==
    IF S.round.phase # "PREDICTING" THEN Result("ValueError", S.round, S.apprentices)
    ELSE Result("ok", [S.round EXCEPT !.trump_color = col], S.apprentices)

\* Mutant: set_dealer_chosen_trump without its phase test.
set_dealer_chosen_trump_any_phase(S, col) ==
    IF S.round.trump_card = None \/ card_type(Get(S.round.trump_card)) # "WIZARD"
    THEN Result("ValueError", S.round, S.apprentices)
    ELSE Result("ok", [S.round EXCEPT !.trump_color = col], S.apprentices)

set_dealer_chosen_trump(S, col) ==
    IF S.round.phase # "PREDICTING" THEN Result("ValueError", S.round, S.apprentices)
    ELSE IF S.round.trump_card = None \/ card_type(Get(S.round.trump_card)) # "WIZARD"
         THEN Result("ValueError", S.round, S.apprentices)
    ELSE Result("ok", [S.round EXCEPT !.trump_color = col], S.apprentices)

\* Mutant: the dealer leads the first trick.
_start_first_trick_dealer_leads(rnd) ==
    LET first_apprentice_index == rnd.dealer_index
    IN  [rnd EXCEPT !.current_trick = Some(Trick_init(first_apprentice_index, rnd.trump_color)),
                    !.current_apprentice_index = first_apprentice_index]

_start_first_trick(rnd) ==
    LET first_apprentice_index == (rnd.dealer_index + 1) % n
    IN  [rnd EXCEPT !.current_trick = Some(Trick_init(first_apprentice_index, rnd.trump_color)),
                    !.current_apprentice_index = first_apprentice_index]

\* Mutant: the tricks after the first are created without a trump colour.
_start_next_trick_no_trump(rnd, leading_apprentice) ==
    [rnd EXCEPT !.current_trick = Some(Trick_init(leading_apprentice, PyNone)),
                !.current_apprentice_index = leading_apprentice]

\* Mutant: the turn is not handed to the leader of the next trick.
_start_next_trick_keeps_turn(rnd, leading_apprentice) ==
    [rnd EXCEPT !.current_trick = Some(Trick_init(leading_apprentice, rnd.trump_color))]

_start_next_trick(rnd, leading_apprentice) ==
    [rnd EXCEPT !.current_trick = Some(Trick_init(leading_apprentice, rnd.trump_color)),
                !.current_apprentice_index = leading_apprentice]

\* Mutant: the upper end of the legal range is excluded.
Round_make_prediction_upper_excluded(S, a, prediction) ==
    IF S.round.phase # "PREDICTING" THEN Result("ValueError", S.round, S.apprentices)
    ELSE IF prediction < 0 \/ prediction >= S.round.cards_per_apprentice
         THEN Result("False", S.round, S.apprentices)
    ELSE
    LET m == Apprentice_make_prediction(S.apprentices[a], prediction)
        aps == [S.apprentices EXCEPT ![a] = m.a]
    IN  IF m.ret = "ValueError" THEN Result("ValueError", S.round, aps)
        ELSE IF \A i \in Seats : aps[i].prediction # None
             THEN Result("True", _start_first_trick([S.round EXCEPT !.phase = "PLAYING"]), aps)
        ELSE Result("True", S.round, aps)

Round_make_prediction(S, a, prediction) ==
    IF S.round.phase # "PREDICTING" THEN Result("ValueError", S.round, S.apprentices)
    ELSE IF prediction < 0 \/ prediction > S.round.cards_per_apprentice
         THEN Result("False", S.round, S.apprentices)
    ELSE
    LET m == Apprentice_make_prediction(S.apprentices[a], prediction)
        aps == [S.apprentices EXCEPT ![a] = m.a]
    IN  IF m.ret = "ValueError" THEN Result("ValueError", S.round, aps)
        ELSE IF \A i \in Seats : aps[i].prediction # None
             THEN Result("True", _start_first_trick([S.round EXCEPT !.phase = "PLAYING"]), aps)
        ELSE Result("True", S.round, aps)

\* Mutant: the last trick takes the round straight to COMPLETE.
Round_trick_complete_skips_scoring(rnd, aps) ==
    LET c == complete_trick(Get(rnd.current_trick), aps)
        done == [rnd EXCEPT !.current_trick = Some(c.trick),
                            !.tricks_played = Append(@, c.trick)]
    IN  IF Len(done.tricks_played) = done.cards_per_apprentice
        THEN Result("True", [done EXCEPT !.phase = "COMPLETE"], c.apprentices)
        ELSE Result("True", _start_next_trick(done, Get(c.ret)), c.apprentices)

\* Mutant: the end of the round is tested one trick too late.
Round_trick_complete_off_by_one(rnd, aps) ==
    LET c == complete_trick(Get(rnd.current_trick), aps)
        done == [rnd EXCEPT !.current_trick = Some(c.trick),
                            !.tricks_played = Append(@, c.trick)]
    IN  IF Len(done.tricks_played) > done.cards_per_apprentice
        THEN Result("True", [done EXCEPT !.phase = "SCORING"], c.apprentices)
        ELSE Result("True", _start_next_trick(done, Get(c.ret)), c.apprentices)

\* The end of play_card once the trick holds a card of every apprentice:
\* resolve it, append it, and go to SCORING or start the next trick.
Round_trick_complete(rnd, aps) ==
    LET c == complete_trick(Get(rnd.current_trick), aps)
        done == [rnd EXCEPT !.current_trick = Some(c.trick),
                            !.tricks_played = Append(@, c.trick)]
    IN  IF Len(done.tricks_played) = done.cards_per_apprentice
        THEN Result("True", [done EXCEPT !.phase = "SCORING"], c.apprentices)
        ELSE IF c.ret = None
             THEN Result("ValueError",
                         [done EXCEPT !.current_trick =
                              Some(Trick_init(None, done.trump_color))],
                         c.apprentices)
        ELSE Result("True", _start_next_trick(done, Get(c.ret)), c.apprentices)

\* Mutant: the position is not checked against the playable positions.
Round_play_card_unchecked(S, a, card_index) ==
    IF S.round.phase # "PLAYING" THEN Result("ValueError", S.round, S.apprentices)
    ELSE IF a # S.round.current_apprentice_index
         THEN Result("ValueError", S.round, S.apprentices)
    ELSE IF S.round.current_trick = None THEN Result("ValueError", S.round, S.apprentices)
    ELSE
    LET p == Apprentice_play_card(S.apprentices[a], card_index)
    IN  IF p.ret = "IndexError" THEN Result("IndexError", S.round, S.apprentices)
        ELSE
        LET aps == [S.apprentices EXCEPT ![a] = p.a]
            tp == Trick_play_card(Get(S.round.current_trick), a, Get(p.card))
        IN  IF tp.ret = "ValueError" THEN Result("ValueError", S.round, aps)
            ELSE
            LET rnd == [S.round EXCEPT
                          !.current_trick = Some(tp.trick),
                          !.current_apprentice_index = (@ + 1) % n]
            IN  IF Len(tp.trick.cards_played) = n
                THEN Round_trick_complete(rnd, aps)
                ELSE Result("True", rnd, aps)

\* Mutant: the turn is not checked; the duplicate play is caught by the trick
\* only after the card has left the hand.
Round_play_card_any_turn(S, a, card_index) ==
    IF S.round.phase # "PLAYING" THEN Result("ValueError", S.round, S.apprentices)
    ELSE IF S.round.current_trick = None THEN Result("ValueError", S.round, S.apprentices)
    ELSE IF card_index \notin
              get_playable_cards(S.apprentices[a].hand, Get(S.round.current_trick).leading_color)
         THEN Result("False", S.round, S.apprentices)
    ELSE
    LET p == Apprentice_play_card(S.apprentices[a], card_index)
    IN  IF p.ret = "IndexError" THEN Result("IndexError", S.round, S.apprentices)
        ELSE
        LET aps == [S.apprentices EXCEPT ![a] = p.a]
            tp == Trick_play_card(Get(S.round.current_trick), a, Get(p.card))
        IN  IF tp.ret = "ValueError" THEN Result("ValueError", S.round, aps)
            ELSE
            LET rnd == [S.round EXCEPT
                          !.current_trick = Some(tp.trick),
                          !.current_apprentice_index = (@ + 1) % n]
            IN  IF Len(tp.trick.cards_played) = n
                THEN Round_trick_complete(rnd, aps)
                ELSE Result("True", rnd, aps)

\* Mutant: the trick records the card at card_index, the hand gives up its
\* first card.
Round_play_card_pops_first(S, a, card_index) ==
    IF S.round.phase # "PLAYING" THEN Result("ValueError", S.round, S.apprentices)
    ELSE IF a # S.round.current_apprentice_index
         THEN Result("ValueError", S.round, S.apprentices)
    ELSE IF S.round.current_trick = None THEN Result("ValueError", S.round, S.apprentices)
    ELSE IF card_index \notin
              get_playable_cards(S.apprentices[a].hand, Get(S.round.current_trick).leading_color)
         THEN Result("False", S.round, S.apprentices)
    ELSE
    LET p == Apprentice_play_card(S.apprentices[a], 0)
    IN  IF p.ret = "IndexError" THEN Result("IndexError", S.round, S.apprentices)
        ELSE
        LET aps == [S.apprentices EXCEPT ![a] = p.a]
            tp == Trick_play_card(Get(S.round.current_trick), a,
                                  S.apprentices[a].hand[card_index + 1])
        IN  IF tp.ret = "ValueError" THEN Result("ValueError", S.round, aps)
            ELSE
            LET rnd == [S.round EXCEPT
                          !.current_trick = Some(tp.trick),
                          !.current_apprentice_index = (@ + 1) % n]
            IN  IF Len(tp.trick.cards_played) = n
                THEN Round_trick_complete(rnd, aps)
                ELSE Result("True", rnd, aps)

Round_play_card(S, a, card_index) ==
    IF S.round.phase # "PLAYING" THEN Result("ValueError", S.round, S.apprentices)
    ELSE IF a # S.round.current_apprentice_index
         THEN Result("ValueError", S.round, S.apprentices)
    ELSE IF S.round.current_trick = None THEN Result("ValueError", S.round, S.apprentices)
    ELSE IF card_index \notin
              get_playable_cards(S.apprentices[a].hand, Get(S.round.current_trick).leading_color)
         THEN Result("False", S.round, S.apprentices)
    ELSE
    LET p == Apprentice_play_card(S.apprentices[a], card_index)
    IN  IF p.ret = "IndexError" THEN Result("IndexError", S.round, S.apprentices)
        ELSE
        LET aps == [S.apprentices EXCEPT ![a] = p.a]
            tp == Trick_play_card(Get(S.round.current_trick), a, Get(p.card))
        IN  IF tp.ret = "ValueError" THEN Result("ValueError", S.round, aps)
            ELSE
            LET rnd == [S.round EXCEPT
                          !.current_trick = Some(tp.trick),
                          !.current_apprentice_index = (@ + 1) % n]
            IN  IF Len(tp.trick.cards_played) = n
                THEN Round_trick_complete(rnd, aps)
                ELSE Result("True", rnd, aps)

\* The apprentices score_round has scored when it stops: all of them, or those
\* before the first one whose calculate_round_points raises.
Scored(aps) ==
    {i \in Seats : \A j \in Seats : j <= i => aps[j].prediction # None}

\* Mutant: the round is scored in whatever phase it is.
score_round_unguarded(S) ==
    LET aps == [i \in Seats |->
                  IF i \in Scored(S.apprentices)
                  THEN add_experience_points(S.apprentices[i],
                                             Get(calculate_round_points(S.apprentices[i])))
                  ELSE S.apprentices[i]]
    IN  IF Scored(S.apprentices) # Seats THEN Result("ValueError", S.round, aps)
        ELSE Result("ok", [S.round EXCEPT !.phase = "COMPLETE"], aps)

score_round(S) ==
    IF S.round.phase # "SCORING" THEN Result("ValueError", S.round, S.apprentices)
    ELSE
    LET aps == [i \in Seats |->
                  IF i \in Scored(S.apprentices)
                  THEN add_experience_points(S.apprentices[i],
                                             Get(calculate_round_points(S.apprentices[i])))
                  ELSE S.apprentices[i]]
    IN  IF Scored(S.apprentices) # Seats THEN Result("ValueError", S.round, aps)
        ELSE Result("ok", [S.round EXCEPT !.phase = "COMPLETE"], aps)

(***************************************************************************)
(* The state machine: a Round on a fresh roster, and its caller's calls.   *)
(***************************************************************************)
S == [round |-> round, apprentices |-> apprentices]

Apply(r) ==
    /\ round' = r.round
    /\ apprentices' = r.apprentices
    /\ UNCHANGED <<trick, returned, game>>

\* What callers pass.  Predictions: the two ends of the legal range and the
\* value beyond either end; hand positions: every position of a full hand and
\* the one beyond either end; any colour.
PredictionInputs ==
    {-1, 0, round.cards_per_apprentice, round.cards_per_apprentice + 1}
CardIndexInputs == (-1) .. round.cards_per_apprentice

Init ==
    /\ \E round_number \in 1..MaxRound, dealer_index \in Seats :
          round = Round_init(round_number, dealer_index)
    /\ apprentices = [i \in Seats |-> Apprentice_init]
    /\ trick = None
    /\ returned = NoCall
    /\ game = None

\* A call made in another phase than its own raises before it reads or writes
\* anything (the first test of every Round operation): it is no step.
DealCards ==
    /\ round.phase = "DEALING"
    /\ \E shuffled \in ShuffleOutcomes(round.deck) : Apply(deal_cards(S, shuffled))

SetDealerChosenTrump ==
    /\ round.phase = "PREDICTING"
    /\ \E col \in CardColor : Apply(set_dealer_chosen_trump(S, col))

MakePrediction ==
    /\ round.phase = "PREDICTING"
    /\ \E a \in Seats, prediction \in PredictionInputs :
          Apply(Round_make_prediction(S, a, prediction))

PlayCard ==
    /\ round.phase = "PLAYING"
    /\ \E a \in Seats, card_index \in CardIndexInputs :
          Apply(Round_play_card(S, a, card_index))

ScoreRound ==
    /\ round.phase = "SCORING"
    /\ Apply(score_round(S))

Next ==
    \/ DealCards
    \/ SetDealerChosenTrump
    \/ MakePrediction
    \/ PlayCard
    \/ ScoreRound

Spec == Init /\ [][Next]_vars

\* LiveSpec: Spec with a player to act who always eventually makes an accepted
\* play.  A rejected play is a stuttering step, so <<PlayCard>>_vars is a play
\* that is recorded.  PlayFairness is weak fairness of PlayCard with the
\* enabling condition written out: a recorded play is possible exactly in the
\* phase PLAYING (the first conjunct of C35_Inv, checked in every reachable
\* state).
PlayFairness ==
    \/ []<>(round.phase # "PLAYING")
    \/ []<><<PlayCard>>_vars

LiveSpec == Spec /\ PlayFairness

(***************************************************************************)
(* ScoreSpec: one Apprentice used directly.  Its caller records any        *)
(* prediction, counts won tricks, and asks for the round's points.         *)
(***************************************************************************)
ScoreInit ==
    /\ round = None
    /\ apprentices = [i \in {0} |-> Apprentice_init]
    /\ trick = None
    /\ returned = NoCall
    /\ game = None

\* Apprentice.make_prediction raises on a negative prediction: no step.
ApprenticeMakePrediction ==
    \E prediction \in (-1)..MaxCount :
       /\ apprentices' =
             [apprentices EXCEPT ![0] = Apprentice_make_prediction(@, prediction).a]
       /\ UNCHANGED <<round, trick, returned, game>>

WinTrick ==
    /\ apprentices[0].tricks_won < MaxCount
    /\ apprentices' = [apprentices EXCEPT ![0] = win_trick(@)]
    /\ UNCHANGED <<round, trick, returned, game>>

CalculateRoundPoints ==
    /\ returned' = [called |-> "calculate_round_points",
                    value |-> calculate_round_points(apprentices[0])]
    /\ UNCHANGED <<round, apprentices, trick, game>>

ScoreNext ==
    \/ ApprenticeMakePrediction
    \/ WinTrick
    \/ CalculateRoundPoints

ScoreSpec == ScoreInit /\ [][ScoreNext]_vars

(***************************************************************************)
(* TrickSpec: one Trick used directly, as tests/game_logic/test_trick.py   *)
(* does: Trick(leader, trump), play_card for the players in seat order     *)
(* from the leader, each with a card nobody has played, and complete_trick *)
(* at any moment, once (the caller reads is_complete first).               *)
(***************************************************************************)
TrickSeats == 0 .. (MaxTrickPlayers - 1)

\* The cards the players hold between them: two Wizards, the four Fools, two
\* cards of one colour, one of a second, a high one of a third.
TrickCards ==
    {Wizard(1), Wizard(2), Fool(1), Fool(2), Fool(3), Fool(4),
     Regular("HUMANS", 3), Regular("HUMANS", 7), Regular("ELVES", 5),
     Regular("DWARVES", 11)}

\* No trump (the last round, a Fool or a Wizard turned up) or a colour.
TrickTrumps == {PyNone, "HUMANS", "ELVES"}

PlayedCards(t) == {t.cards_played[k].card : k \in 1..Len(t.cards_played)}

NextToPlay(t) == (t.leading_apprentice + Len(t.cards_played)) % MaxTrickPlayers

TrickInit ==
    /\ round = None
    /\ apprentices = [i \in TrickSeats |-> Apprentice_init]
    /\ \E leading_apprentice \in TrickSeats, trump_color \in TrickTrumps :
          trick = Trick_init(leading_apprentice, trump_color)
    /\ returned = NoCall
    /\ game = None

\* play_card on a completed trick raises: no step.
TrickPlayCard ==
    /\ Len(trick.cards_played) < MaxTrickPlayers
    /\ \E card \in TrickCards \ PlayedCards(trick) :
          trick' = Trick_play_card(trick, NextToPlay(trick), card).trick
    /\ UNCHANGED <<round, apprentices, returned, game>>

TrickComplete ==
    /\ ~trick.is_complete
    /\ LET r == complete_trick(trick, apprentices)
       IN  /\ trick' = r.trick
           /\ apprentices' = r.apprentices
           /\ returned' = [called |-> "complete_trick", value |-> r.ret]
    /\ UNCHANGED <<round, game>>

TrickNext ==
    \/ TrickPlayCard
    \/ TrickComplete

TrickSpec == TrickInit /\ [][TrickNext]_vars

(***************************************************************************)
(* CardSpec: one call of Card.is_higher_than, with any two cards of the    *)
(* deck, any trump colour and any leading colour (a CardColor or None).    *)
(* returned records the arguments with the value.                          *)
(***************************************************************************)
OptionalColors == CardColor \cup {PyNone}

CardInit ==
    /\ round = None
    /\ apprentices = None
    /\ trick = None
    /\ returned = NoCall
    /\ game = None

IsHigherThan ==
    /\ returned = NoCall
    /\ \E self \in Cards, other \in Cards,
          trump_color \in OptionalColors, led_color \in OptionalColors :
          returned' = [called |-> "is_higher_than",
                       args |-> <<self, other, trump_color, led_color>>,
                       value |-> is_higher_than(self, other, trump_color, led_color)]
    /\ UNCHANGED <<round, apprentices, trick, game>>

CardNext == IsHigherThan

CardSpec == CardInit /\ [][CardNext]_vars

(***************************************************************************)
(* HandSpec: one Apprentice's hand used directly, as TestApprentice does:  *)
(* receive_cards, play_card with any position, get_playable_cards with any *)
(* led colour (a CardColor or None).                                       *)
(***************************************************************************)
\* The cards the hand is drawn from: a Wizard, a Fool, two cards of one
\* colour, one of a second, a high one of a third; no card of the fourth.
HandCards ==
    {Wizard(1), Fool(1), Regular("HUMANS", 3), Regular("HUMANS", 7),
     Regular("ELVES", 5), Regular("DWARVES", 11)}

receive_cards(a, cards) == [a EXCEPT !.hand = @ \o cards]

HandInit ==
    /\ round = None
    /\ apprentices = [i \in {0} |-> Apprentice_init]
    /\ trick = None
    /\ returned = NoCall
    /\ game = None

ReceiveCards ==
    /\ Len(apprentices[0].hand) < MaxHand
    /\ \E card \in HandCards \ Range(apprentices[0].hand) :
          apprentices' = [apprentices EXCEPT ![0] = receive_cards(@, <<card>>)]
    /\ UNCHANGED <<round, trick, returned, game>>

\* Apprentice.play_card: value is the card, or None for the IndexError.
ApprenticePlayCard ==
    \E card_index \in (-1) .. MaxHand :
       LET p == Apprentice_play_card(apprentices[0], card_index)
       IN  /\ apprentices' = [apprentices EXCEPT ![0] = p.a]
           /\ returned' = [called |-> "play_card", args |-> <<card_index>>,
                           value |-> p.card]
           /\ UNCHANGED <<round, trick, game>>

GetPlayableCards ==
    \E led_color \in OptionalColors :
       /\ returned' = [called |-> "get_playable_cards", args |-> <<led_color>>,
                       value |-> get_playable_cards(apprentices[0].hand, led_color)]
       /\ UNCHANGED <<round, apprentices, trick, game>>

HandNext ==
    \/ ReceiveCards
    \/ ApprenticePlayCard
    \/ GetPlayableCards

HandSpec == HandInit /\ [][HandNext]_vars

(***************************************************************************)
(* DealSpec: the deal of a Round of any round number up to the last one    *)
(* the deck allows, and the dealer's choice of trump; no card is played.   *)
(***************************************************************************)
\* The round that deals the whole deck (Game._calculate_max_rounds).
LastRound == NumCards \div n

DealInit ==
    /\ \E round_number \in 1..LastRound, dealer_index \in Seats :
          round = Round_init(round_number, dealer_index)
    /\ apprentices = [i \in Seats |-> Apprentice_init]
    /\ trick = None
    /\ returned = NoCall
    /\ game = None

DealNext ==
    \/ DealCards
    \/ SetDealerChosenTrump

DealSpec == DealInit /\ [][DealNext]_vars

(***************************************************************************)
(* Game: [phase, current_round_number, max_rounds, dealer_index,           *)
(* round_history].  dealer_index is the seat of the apprentice whose       *)
(* is_dealer is set; round_history holds the round numbers of the rounds   *)
(* appended to it.                                                         *)
(***************************************************************************)
_calculate_max_rounds(num_apprentices) == 60 \div num_apprentices

Game_init(dealer_index) ==
    [phase |-> "SETUP",
     current_round_number |-> 0,
     max_rounds |-> _calculate_max_rounds(n),
     dealer_index |-> dealer_index,
     round_history |-> <<>>]

GameResult(ret, g, rnd, aps) ==
    [ret |-> ret, game |-> g, round |-> rnd, apprentices |-> aps]

\* A dealing that raises leaves the round it was called on as the current
\* round and the game's phase as it was.
_start_next_round(g, aps, shuffled) ==
    LET numbered == [g EXCEPT !.current_round_number = @ + 1]
        d == deal_cards([round |-> Round_init(numbered.current_round_number,
                                              numbered.dealer_index),
                         apprentices |-> aps],
                        shuffled)
    IN  IF d.ret = "ValueError"
        THEN GameResult("ValueError", numbered, d.round, d.apprentices)
        ELSE GameResult("ok", [numbered EXCEPT !.phase = "ROUND_IN_PROGRESS"],
                        d.round, d.apprentices)

start_game(G, shuffled) ==
    IF G.game.phase # "SETUP"
    THEN GameResult("ValueError", G.game, G.round, G.apprentices)
    ELSE _start_next_round(G.game, G.apprentices, shuffled)

\* What a call handed on to the current round leaves behind.
OfRound(G, r) == GameResult(r.ret, G.game, r.round, r.apprentices)

CurrentRound(G) == [round |-> G.round, apprentices |-> G.apprentices]

Game_make_prediction(G, a, prediction) ==
    IF G.game.phase # "ROUND_IN_PROGRESS" \/ G.round = None
    THEN GameResult("ValueError", G.game, G.round, G.apprentices)
    ELSE OfRound(G, Round_make_prediction(CurrentRound(G), a, prediction))

Game_play_card(G, a, card_index) ==
    IF G.game.phase # "ROUND_IN_PROGRESS" \/ G.round = None
    THEN GameResult("ValueError", G.game, G.round, G.apprentices)
    ELSE OfRound(G, Round_play_card(CurrentRound(G), a, card_index))

Game_set_dealer_chosen_trump(G, col) ==
    IF G.game.phase # "ROUND_IN_PROGRESS" \/ G.round = None
    THEN GameResult("ValueError", G.game, G.round, G.apprentices)
    ELSE OfRound(G, set_dealer_chosen_trump(CurrentRound(G), col))

_rotate_dealer(g) == [g EXCEPT !.dealer_index = (@ + 1) % n]

reset_for_new_round(a) ==
    [a EXCEPT !.hand = <<>>, !.prediction = None, !.tricks_won = 0]

\* Mutant: the game ends one round later.
end_round_one_more_round(G, shuffled) ==
    IF G.round = None \/ G.round.phase # "SCORING"
    THEN GameResult("ValueError", G.game, G.round, G.apprentices)
    ELSE
    LET s == score_round(CurrentRound(G))
    IN  IF s.ret = "ValueError" THEN OfRound(G, s)
        ELSE
        LET g == _rotate_dealer([G.game EXCEPT
                                   !.round_history = Append(@, s.round.round_number)])
            aps == [i \in Seats |-> reset_for_new_round(s.apprentices[i])]
        IN  IF g.current_round_number > g.max_rounds
            THEN GameResult("ok", [g EXCEPT !.phase = "GAME_OVER"], s.round, aps)
            ELSE _start_next_round(g, aps, shuffled)

\* score_round raises before the round is appended to the history if an
\* apprentice has no prediction.
end_round(G, shuffled) ==
    IF G.round = None \/ G.round.phase # "SCORING"
    THEN GameResult("ValueError", G.game, G.round, G.apprentices)
    ELSE
    LET s == score_round(CurrentRound(G))
    IN  IF s.ret = "ValueError" THEN OfRound(G, s)
        ELSE
        LET g == _rotate_dealer([G.game EXCEPT
                                   !.round_history = Append(@, s.round.round_number)])
            aps == [i \in Seats |-> reset_for_new_round(s.apprentices[i])]
        IN  IF g.current_round_number >= g.max_rounds
            THEN GameResult("ok", [g EXCEPT !.phase = "GAME_OVER"], s.round, aps)
            ELSE _start_next_round(g, aps, shuffled)

(***************************************************************************)
(* GameSpec: a Game from its construction to GAME_OVER.  The first dealer  *)
(* is any seat and the first deal any shuffle outcome; the later rounds    *)
(* are dealt from the deck in the order random.shuffle found it.  The      *)
(* players predict zero tricks or a number out of range, and play their    *)
(* first playable card, the first card of their hand or no card of it.     *)
(***************************************************************************)
G == [game |-> game, round |-> round, apprentices |-> apprentices]

ApplyGame(r) ==
    /\ game' = r.game
    /\ round' = r.round
    /\ apprentices' = r.apprentices
    /\ UNCHANGED <<trick, returned>>

Min(s) == CHOOSE x \in s : \A y \in s : x <= y

GamePredictionInputs == {-1, 0}

GameCardIndexInputs ==
    LET playable == get_playable_cards(
                       apprentices[round.current_apprentice_index].hand,
                       Get(round.current_trick).leading_color)
    IN  {-1, 0} \cup (IF playable = {} THEN {} ELSE {Min(playable)})

GameInit ==
    /\ \E dealer_index \in Seats : game = Game_init(dealer_index)
    /\ round = None
    /\ apprentices = [i \in Seats |-> Apprentice_init]
    /\ trick = None
    /\ returned = NoCall

\* A call the game or the round rejects in the phase it is made in raises
\* before it writes anything: it is no step.
StartGame ==
    /\ game.phase = "SETUP"
    /\ \E shuffled \in ShuffleOutcomes(Deck_init) : ApplyGame(start_game(G, shuffled))

GameSetDealerChosenTrump ==
    /\ game.phase = "ROUND_IN_PROGRESS"
    /\ round.phase = "PREDICTING"
    /\ \E col \in CardColor : ApplyGame(Game_set_dealer_chosen_trump(G, col))

GameMakePrediction ==
    /\ game.phase = "ROUND_IN_PROGRESS"
    /\ round.phase = "PREDICTING"
    /\ \E a \in Seats, prediction \in GamePredictionInputs :
          ApplyGame(Game_make_prediction(G, a, prediction))

GamePlayCard ==
    /\ game.phase = "ROUND_IN_PROGRESS"
    /\ round.phase = "PLAYING"
    /\ \E a \in Seats, card_index \in GameCardIndexInputs :
          ApplyGame(Game_play_card(G, a, card_index))

EndRound ==
    /\ game.phase = "ROUND_IN_PROGRESS"
    /\ round.phase = "SCORING"
    /\ ApplyGame(end_round(G, Deck_init))

GameNext ==
    \/ StartGame
    \/ GameSetDealerChosenTrump
    \/ GameMakePrediction
    \/ GamePlayCard
    \/ EndRound

GameSpec == GameInit /\ [][GameNext]_vars

(***************************************************************************)
(* Properties.                                                             *)
(***************************************************************************)
PhaseIndex(p) == CHOOSE i \in 1..Len(RoundPhase) : RoundPhase[i] = p

\* q is p or the phase right after p.
Forward(p, q) == PhaseIndex(q) = PhaseIndex(p) \/ PhaseIndex(q) = PhaseIndex(p) + 1

AllPredictions == (-1) .. (round.cards_per_apprentice + 1)

\* P holds of the outcome of every call a caller can make in the current
\* state, in or out of its phase, accepted or rejected.
EveryCall(P(_)) ==
    /\ \A top \in Tops : P(deal_cards(S, TopFirst(round.deck, top)))
    /\ \A col \in CardColor : P(set_dealer_chosen_trump(S, col))
    /\ \A a \in Seats, p \in AllPredictions : P(Round_make_prediction(S, a, p))
    /\ \A a \in Seats, i \in CardIndexInputs : P(Round_play_card(S, a, i))
    /\ P(score_round(S))

\* The call left the state as it was.
NoMutation(r) == r.round = round /\ r.apprentices = apprentices

C1_StepsForward(r) == Forward(round.phase, r.round.phase)

\* C1: over any sequence of Round operations, accepted or rejected, the phase
\* only moves along DEALING -> PREDICTING -> PLAYING -> SCORING -> COMPLETE:
\* every call leaves the phase where it is or moves it to the next one, so no
\* phase is skipped and none is entered again.
C1_PhaseForwardOnly ==
    /\ [](EveryCall(C1_StepsForward))
    /\ [][Forward(round.phase, round'.phase)]_vars

\* A round that went through all five phases.
C1_Witness ==
    /\ round.phase = "COMPLETE"
    /\ Len(round.tricks_played) = MaxRound

C2_Inv ==
    /\ Len(round.tricks_played) <= round.cards_per_apprentice
    /\ round.phase = "PLAYING" =>
          Len(round.tricks_played) < round.cards_per_apprentice
    /\ Len(round.tricks_played) = round.cards_per_apprentice =>
          round.phase \in {"SCORING", "COMPLETE"}

C2_Step ==
    (/\ Len(round.tricks_played) # round.cards_per_apprentice
     /\ Len(round'.tricks_played) = round.cards_per_apprentice)
    => round'.phase = "SCORING"

\* C2: len(tricks_played) never exceeds cards_per_apprentice, never equals it
\* while the phase is PLAYING, and the step that makes it equal leaves the
\* round in SCORING.
C2_TricksBounded == []C2_Inv /\ [][C2_Step]_vars

\* The second trick of a two-card round has just been resolved.
C2_Witness ==
    /\ round.phase = "SCORING"
    /\ round.cards_per_apprentice >= 2
    /\ Len(round.tricks_played) = round.cards_per_apprentice

AllPredicted(aps) == \A i \in Seats : aps[i].prediction # None

FirstLeader == (round.dealer_index + 1) % n

\* What a call or step out of PREDICTING must give: PLAYING with the first
\* trick just created once every prediction is in, PREDICTING otherwise.
C3_After(rnd, aps) ==
    IF AllPredicted(aps)
    THEN /\ rnd.phase = "PLAYING"
         /\ rnd.current_trick = Some(Trick_init(FirstLeader, rnd.trump_color))
         /\ rnd.tricks_played = <<>>
         /\ rnd.current_apprentice_index = FirstLeader
    ELSE /\ rnd.phase = "PREDICTING"
         /\ rnd.current_trick = None

C3_Inv ==
    round.phase = "PREDICTING" =>
        /\ ~AllPredicted(apprentices)
        /\ round.current_trick = None
        /\ \A a \in Seats, p \in AllPredictions :
              LET r == Round_make_prediction(S, a, p)
              IN  C3_After(r.round, r.apprentices)

\* C3: in PREDICTING the phase stays PREDICTING while a player has no
\* prediction; the make_prediction call after which every player has one sets
\* the phase to PLAYING and creates one new, empty current trick led by
\* apprentices[(dealer_index + 1) mod n], whose turn it then is.
C3_FirstTrickOnLastPrediction ==
    /\ []C3_Inv
    /\ [][round.phase = "PREDICTING" => C3_After(round', apprentices')]_vars

\* The last prediction has just been made and the seat after the dealer wraps
\* around to seat 0.
C3_Witness ==
    /\ round.phase = "PLAYING"
    /\ round.dealer_index = n - 1
    /\ round.tricks_played = <<>>
    /\ Get(round.current_trick).cards_played = <<>>
    /\ Get(round.current_trick).leading_apprentice = 0

\* The k-th card of trick t was played k - 1 seats after its leader.
InSeatingOrder(t) ==
    \A k \in 1..Len(t.cards_played) :
        t.cards_played[k].apprentice = (t.leading_apprentice + (k - 1)) % n

\* C4: in every PLAYING state current_apprentice_index is the leader's seat
\* plus the number of cards in the current trick, mod n, and the k-th card of
\* every trick was played by the player k - 1 seats after its leader.
C4_SeatingOrder ==
    /\ round.phase = "PLAYING" =>
          /\ round.current_trick # None
          /\ round.current_apprentice_index =
                (Get(round.current_trick).leading_apprentice
                    + Len(Get(round.current_trick).cards_played)) % n
          /\ InSeatingOrder(Get(round.current_trick))
    /\ \A j \in 1..Len(round.tricks_played) : InSeatingOrder(round.tricks_played[j])

\* In a later trick, led from another seat than the first one, two cards are
\* in and the turn has wrapped around the table.
C4_Witness ==
    /\ round.phase = "PLAYING"
    /\ Len(round.tricks_played) >= 1
    /\ Get(round.current_trick).leading_apprentice # FirstLeader
    /\ Len(Get(round.current_trick).cards_played) = 2
    /\ round.current_apprentice_index < Get(round.current_trick).leading_apprentice

\* The step is an accepted play of the last card of the current trick.
FillsTrick ==
    /\ round.phase = "PLAYING"
    /\ Len(Get(round.current_trick).cards_played) = n - 1
    /\ vars' # vars

C5_Step ==
    FillsTrick =>
        LET t == round'.tricks_played[Len(round'.tricks_played)]
        IN  /\ round'.tricks_played = Append(round.tricks_played, t)
            /\ t.is_complete
            /\ Len(t.cards_played) = n
            /\ SubSeq(t.cards_played, 1, n - 1) = Get(round.current_trick).cards_played
            /\ \E w \in Seats :
                  /\ \A i \in Seats :
                        apprentices'[i].tricks_won =
                            apprentices[i].tricks_won + (IF i = w THEN 1 ELSE 0)
                  /\ IF Len(round'.tricks_played) = round.cards_per_apprentice
                     THEN round'.phase = "SCORING"
                     ELSE /\ round'.phase = "PLAYING"
                          /\ round'.current_trick = Some(Trick_init(w, round.trump_color))
                          /\ round'.current_apprentice_index = w

\* C5: the accepted play that gives the current trick one card per player
\* resolves it once (one player's tricks_won grows by one) and appends it to
\* tricks_played; the phase becomes SCORING if that was the last trick, and
\* otherwise stays PLAYING with a new empty trick that the winner leads and
\* opens.
C5_TrickResolvedThenNext == [][C5_Step]_vars

\* A second trick has been started by the winner of the first, who is not
\* the player who led the first.
C5_Witness ==
    /\ round.phase = "PLAYING"
    /\ Len(round.tricks_played) = 1
    /\ Get(round.current_trick).cards_played = <<>>
    /\ Get(round.current_trick).leading_apprentice # round.tricks_played[1].leading_apprentice
    /\ apprentices[Get(round.current_trick).leading_apprentice].tricks_won = 1

\* The hand of the player to act and the leading colour they face.
ActingHand == apprentices[round.current_apprentice_index].hand
LedNow == Get(round.current_trick).leading_color

\* Hand positions a caller may pass, in and out of the hand.
AllCardIndexes == (-2) .. (round.cards_per_apprentice + 1)

\* C6: play_card by the player to act with a position that is not among
\* get_playable_cards for the current trick's leading colour returns False and
\* leaves the hands, the trick, the turn, the phase and the counters as they
\* were, so the same player is still the one to act.
C6_IllegalPositionRejected ==
    round.phase = "PLAYING" =>
        \A i \in AllCardIndexes :
            i \notin get_playable_cards(ActingHand, LedNow) =>
                Round_play_card(S, round.current_apprentice_index, i)
                    = Result("False", round, apprentices)

\* The player to act holds a card of the leading colour and another card
\* they may not play.
C6_Witness ==
    /\ round.phase = "PLAYING"
    /\ LedNow # PyNone
    /\ \E i, j \in 0 .. (Len(ActingHand) - 1) :
          /\ i \notin get_playable_cards(ActingHand, LedNow)
          /\ j \in get_playable_cards(ActingHand, LedNow)

\* C7: play_card by a player other than apprentices[current_apprentice_index]
\* raises and mutates nothing.
C7_OutOfTurnRejected ==
    round.phase = "PLAYING" =>
        \A a \in Seats \ {round.current_apprentice_index}, i \in AllCardIndexes :
            Round_play_card(S, a, i) = Result("ValueError", round, apprentices)

\* A trick is under way and a player whose turn it is not holds a card that
\* the rules would let them play.
C7_Witness ==
    /\ round.phase = "PLAYING"
    /\ Len(Get(round.current_trick).cards_played) = 1
    /\ \E a \in Seats \ {round.current_apprentice_index} :
          /\ ~HasPlayed(Get(round.current_trick), a)
          /\ get_playable_cards(apprentices[a].hand, LedNow) # {}

\* C8: in PREDICTING, make_prediction with prediction < 0 or prediction >
\* cards_per_apprentice returns False and changes nothing; every value in
\* 0..cards_per_apprentice returns True and is recorded.
C8_PredictionRange ==
    round.phase = "PREDICTING" =>
        \A a \in Seats, p \in AllPredictions :
            LET r == Round_make_prediction(S, a, p)
            IN  IF p < 0 \/ p > round.cards_per_apprentice
                THEN r = Result("False", round, apprentices)
                ELSE /\ r.ret = "True"
                     /\ r.apprentices[a].prediction = Some(p)

\* Predictions are being collected in a round of more than one card.
C8_Witness ==
    /\ round.phase = "PREDICTING"
    /\ round.cards_per_apprentice >= 2
    /\ \E a \in Seats : apprentices[a].prediction = Some(round.cards_per_apprentice)

\* C9: once a player's prediction is recorded, no later Round operation of the
\* round changes it, a further make_prediction for that player in PREDICTING
\* included.
C9_PredictionSetOnce ==
    [][\A a \in Seats :
          apprentices[a].prediction # None =>
              apprentices'[a].prediction = apprentices[a].prediction]_vars

\* The round delta for (prediction, tricks_won).
RoundDelta(p, t) == IF p = t THEN 20 + 10 * t ELSE (-10) * (IF p > t THEN p - t ELSE t - p)

DeltaOf(a) == RoundDelta(Get(a.prediction), a.tricks_won)

C10_Inv ==
    /\ round.phase # "SCORING" => score_round(S) = Result("ValueError", round, apprentices)
    /\ round.phase = "SCORING" =>
          LET r == score_round(S)
          IN  /\ r.round.phase = "COMPLETE"
              /\ \A a \in Seats :
                    r.apprentices[a].experience_points =
                        apprentices[a].experience_points + DeltaOf(apprentices[a])
    /\ \A a \in Seats :
          apprentices[a].experience_points =
              IF round.phase = "COMPLETE" THEN DeltaOf(apprentices[a]) ELSE 0

C10_Step ==
    (\E a \in Seats : apprentices'[a].experience_points # apprentices[a].experience_points)
    => /\ round.phase = "SCORING"
       /\ round'.phase = "COMPLETE"
       /\ \A a \in Seats :
             apprentices'[a].experience_points =
                 apprentices[a].experience_points + DeltaOf(apprentices[a])

\* C10: a player's experience_points change at most once in a round, in the
\* score_round call made in SCORING, by that player's round delta for
\* (prediction, tricks_won); that call moves the phase to COMPLETE; score_round
\* in any other phase raises and changes no score.
C10_ScoredOnce == []C10_Inv /\ [][C10_Step]_vars

\* A scored round in which one player met the prediction and another missed.
C10_Witness ==
    /\ round.phase = "COMPLETE"
    /\ \E a, b \in Seats :
          /\ apprentices[a].experience_points >= 20
          /\ apprentices[b].experience_points < 0

\* C11: calculate_round_points returns 20 + 10*t when the prediction p equals
\* the tricks won t and -10*|p - t| otherwise, e.g. (3,3) -> 50, (2,4) -> -20,
\* (5,2) -> -30; it fails when no prediction has been recorded.
C11_Expected(a) ==
    IF a.prediction = None THEN None
    ELSE Some(RoundDelta(Get(a.prediction), a.tricks_won))

C11_Inv ==
    LET a == apprentices[0]
        at(p, t) == [a EXCEPT !.prediction = Some(p), !.tricks_won = t]
    IN  /\ calculate_round_points(a) = C11_Expected(a)
        /\ calculate_round_points(at(3, 3)) = Some(50)
        /\ calculate_round_points(at(2, 4)) = Some(-20)
        /\ calculate_round_points(at(5, 2)) = Some(-30)

C11_Step ==
    returned' # returned =>
       /\ returned'.called = "calculate_round_points"
       /\ returned'.value = C11_Expected(apprentices[0])

C11_RoundPoints == []C11_Inv /\ [][C11_Step]_vars

\* A correct prediction of 3 scored 50, and a missing prediction failed.
C11_Witness ==
    /\ returned.called = "calculate_round_points"
    /\ \/ /\ apprentices[0].prediction = Some(3)
          /\ apprentices[0].tricks_won = 3
          /\ returned.value = Some(50)
       \/ /\ apprentices[0].prediction = Some(5)
          /\ apprentices[0].tricks_won = 2
          /\ returned.value = Some(-30)

\* The call raised ValueError and left the round and the roster as they were.
Rejected(r) == r = Result("ValueError", round, apprentices)

\* C12: every Round operation called in another phase than its own
\* (deal_cards outside DEALING, make_prediction and set_dealer_chosen_trump
\* outside PREDICTING, play_card outside PLAYING, score_round outside SCORING)
\* raises an error and mutates nothing; so in COMPLETE every operation is
\* rejected and the round and the roster never change again.
C12_Inv ==
    /\ round.phase # "DEALING" =>
          \A top \in Tops : Rejected(deal_cards(S, TopFirst(round.deck, top)))
    /\ round.phase # "PREDICTING" =>
          /\ \A a \in Seats, p \in AllPredictions : Rejected(Round_make_prediction(S, a, p))
          /\ \A col \in CardColor : Rejected(set_dealer_chosen_trump(S, col))
    /\ round.phase # "PLAYING" =>
          \A a \in Seats, i \in AllCardIndexes : Rejected(Round_play_card(S, a, i))
    /\ round.phase # "SCORING" => Rejected(score_round(S))
    /\ round.phase = "COMPLETE" => EveryCall(Rejected)

C12_WrongPhaseRejected ==
    /\ []C12_Inv
    /\ [][round.phase = "COMPLETE" => UNCHANGED <<round, apprentices>>]_vars

\* A scored round whose trump card is a Wizard: the dealer's choice of trump
\* would pass every test of set_dealer_chosen_trump but the phase test.
C12_Witness ==
    /\ round.phase = "COMPLETE"
    /\ round.trump_card # None
    /\ card_type(Get(round.trump_card)) = "WIZARD"
    /\ \E a \in Seats : apprentices[a].experience_points # 0

\* The k-th card played in trick t.
CardAt(t, k) == t.cards_played[k].card

IsRegular(c) == card_type(c) = "REGULAR"

\* C13: after k >= 1 Trick.play_card calls the leading colour is the colour
\* of the first card if it is Regular; otherwise the colour of the second card
\* if there is one and it is Regular; otherwise it is undefined (None).
C13_LeadingColor ==
    Len(trick.cards_played) >= 1 =>
        trick.leading_color =
            IF IsRegular(CardAt(trick, 1)) THEN color(CardAt(trick, 1))
            ELSE IF Len(trick.cards_played) >= 2 /\ IsRegular(CardAt(trick, 2))
                 THEN color(CardAt(trick, 2))
            ELSE PyNone

\* [Fool, Regular, Regular of another colour, ...]: the second card led.
C13_Witness ==
    /\ Len(trick.cards_played) >= 3
    /\ card_type(CardAt(trick, 1)) = "FOOL"
    /\ IsRegular(CardAt(trick, 2))
    /\ IsRegular(CardAt(trick, 3))
    /\ color(CardAt(trick, 3)) # color(CardAt(trick, 2))
    /\ trick.leading_color = color(CardAt(trick, 2))

\* The first two cards of trick t are both special (Wizard or Fool).
TwoSpecialsFirst(t) ==
    /\ Len(t.cards_played) >= 2
    /\ ~IsRegular(CardAt(t, 1))
    /\ ~IsRegular(CardAt(t, 2))

\* C14: no card after the second sets or changes the leading colour: a play
\* into a trick that holds two cards or more leaves it as it was, and when the
\* first two cards are special it is undefined for the rest of the trick, even
\* after a Regular card, so that Round.play_card accepts every position of the
\* hand of each later player in that trick.
C14_Inv ==
    /\ \A k \in 1..Len(round.tricks_played) :
          TwoSpecialsFirst(round.tricks_played[k]) =>
              round.tricks_played[k].leading_color = PyNone
    /\ (round.phase = "PLAYING" /\ TwoSpecialsFirst(Get(round.current_trick))) =>
          /\ LedNow = PyNone
          /\ \A i \in 0 .. (Len(ActingHand) - 1) :
                Round_play_card(S, round.current_apprentice_index, i).ret = "True"

C14_Step ==
    (/\ round.phase = "PLAYING"
     /\ Len(Get(round.current_trick).cards_played) >= 2
     /\ vars' # vars) =>
        /\ Len(round'.tricks_played) = Len(round.tricks_played) + 1
        /\ round'.tricks_played[Len(round'.tricks_played)].leading_color = LedNow

Positions == 1 .. Len(trick.cards_played)

\* complete_trick has resolved a trick of at least one card.
Resolved == trick.is_complete /\ returned.called = "complete_trick" /\ Positions # {}

WizardsAt == {k \in Positions : card_type(CardAt(trick, k)) = "WIZARD"}

NonFoolsAt == {k \in Positions : card_type(CardAt(trick, k)) # "FOOL"}

AllFools == NonFoolsAt = {}

\* The position at which the winner played (0 when nobody won).
WinnerAt ==
    IF returned.value = None THEN 0
    ELSE CHOOSE k \in Positions : trick.cards_played[k].apprentice = Get(returned.value)

\* C15: if at least one Wizard was played, the winner is the player of the
\* first Wizard in play order, whatever the trump colour, the leading colour
\* and the other cards (later Wizards among them).
C15_FirstWizardWins ==
    (Resolved /\ WizardsAt # {}) =>
        /\ returned.value # None
        /\ WinnerAt \in WizardsAt
        /\ \A k \in WizardsAt : WinnerAt <= k
        /\ trick.winner = returned.value

\* Two Wizards, the first of them after a card of the trump colour.
C15_Witness ==
    /\ Resolved
    /\ Cardinality(WizardsAt) = 2
    /\ WinnerAt >= 2
    /\ \E k \in Positions : k < WinnerAt /\ color(CardAt(trick, k)) = trick.trump_color
    /\ \E k \in WizardsAt : k > WinnerAt

\* C16: if every card played is a Fool, the winner is the first player to
\* have played (the trick's leader), and completing the trick increments that
\* player's tricks_won.
C16_Inv ==
    (Resolved /\ AllFools) =>
        /\ returned.value = Some(trick.cards_played[1].apprentice)
        /\ returned.value = Some(trick.leading_apprentice)

C16_Step ==
    (~trick.is_complete /\ trick'.is_complete /\ Positions # {} /\ AllFools) =>
        \A a \in TrickSeats :
            apprentices'[a].tricks_won =
                apprentices[a].tricks_won
                    + (IF a = trick.cards_played[1].apprentice THEN 1 ELSE 0)

C16_OnlyFoolsFirstWins == []C16_Inv /\ [][C16_Step]_vars

\* Every player played a Fool and the leader has the trick.
C16_Witness ==
    /\ Resolved
    /\ AllFools
    /\ Len(trick.cards_played) >= MinApprentices
    /\ apprentices[trick.leading_apprentice].tricks_won = 1

\* C17: a Fool never wins unless every card played is a Fool: in a resolved
\* trick the winner's card is a Fool if and only if all cards are Fools.
C17_FoolWinsOnlyAmongFools ==
    Resolved =>
        /\ returned.value # None
        /\ card_type(CardAt(trick, WinnerAt)) = "FOOL" <=> AllFools

\* A Fool led and a Regular card played after it won.
C17_Witness ==
    /\ Resolved
    /\ card_type(CardAt(trick, 1)) = "FOOL"
    /\ WinnerAt > 1
    /\ IsRegular(CardAt(trick, WinnerAt))
    /\ WizardsAt = {}

\* Card.is_higher_than with the trick's trump colour and leading colour.
RanksHigher(c, d) == is_higher_than(c, d, trick.trump_color, trick.leading_color)

\* A resolved trick without a Wizard and with a card that is no Fool.
ResolvedByRank == Resolved /\ WizardsAt = {} /\ NonFoolsAt # {}

TrumpsAt ==
    {k \in Positions : IsRegular(CardAt(trick, k)) /\ color(CardAt(trick, k)) = trick.trump_color}

LedAt ==
    {k \in Positions : IsRegular(CardAt(trick, k)) /\ color(CardAt(trick, k)) = trick.leading_color}

\* k holds the highest value among the positions K.
HighestOf(k, K) ==
    k \in K /\ \A m \in K : value(CardAt(trick, k)) >= value(CardAt(trick, m))

\* C19: in a resolved trick with no Wizard, if a card of the trump colour was
\* played the winner holds the highest-valued card of the trump colour; if
\* none was and the leading colour is defined, the winner holds the
\* highest-valued card of the leading colour, whatever the off-colour values.
C19_HighestTrumpElseLed ==
    (Resolved /\ WizardsAt = {}) =>
        /\ TrumpsAt # {} => HighestOf(WinnerAt, TrumpsAt)
        /\ (TrumpsAt = {} /\ trick.leading_color # PyNone) => HighestOf(WinnerAt, LedAt)

\* A low card of the leading colour won against a higher off-colour card, or
\* a trump card won against a higher card of the leading colour.
C19_Witness ==
    /\ Resolved
    /\ WizardsAt = {}
    /\ WinnerAt # 0
    /\ \E k \in NonFoolsAt :
          /\ color(CardAt(trick, k)) # color(CardAt(trick, WinnerAt))
          /\ value(CardAt(trick, k)) > value(CardAt(trick, WinnerAt))
    /\ \E k \in Positions \ {WinnerAt} :
          color(CardAt(trick, k)) = color(CardAt(trick, WinnerAt))

\* tricks_won summed over the seats 0..i.
RECURSIVE TricksWonUpTo(_)
TricksWonUpTo(i) ==
    IF i < 0 THEN 0 ELSE apprentices[i].tricks_won + TricksWonUpTo(i - 1)

\* C20: every completed trick has one winner and is resolved once: in every
\* reachable Round state each trick of tricks_played holds exactly one card of
\* each player, and tricks_won summed over the players is len(tricks_played)
\* (tricks_won being 0 for all when the round started).
C20_OneWinnerPerTrick ==
    /\ \A k \in 1..Len(round.tricks_played) :
          LET t == round.tricks_played[k]
          IN  /\ t.is_complete
              /\ Len(t.cards_played) = n
              /\ \A a \in Seats :
                    Cardinality({j \in 1..n : t.cards_played[j].apprentice = a}) = 1
    /\ TricksWonUpTo(n - 1) = Len(round.tricks_played)

\* Two tricks played and won by two different players.
C20_Witness ==
    /\ Len(round.tricks_played) = 2
    /\ \E a, b \in Seats :
          a # b /\ apprentices[a].tricks_won = 1 /\ apprentices[b].tricks_won = 1

\* C21: Trick.play_card raises, leaving cards_played and leading_color as they
\* were, when the trick is complete or the player has a card in it; so a
\* player appears at most once in a trick and nothing is recorded once the
\* completion flag is set.
C21_Inv ==
    /\ \A a \in TrickSeats, card \in TrickCards :
          (trick.is_complete \/ HasPlayed(trick, a)) =>
              Trick_play_card(trick, a, card) = [ret |-> "ValueError", trick |-> trick]
    /\ \A a \in TrickSeats :
          Cardinality({k \in 1..Len(trick.cards_played) :
                          trick.cards_played[k].apprentice = a}) <= 1

C21_Step ==
    trick.is_complete =>
        /\ trick'.cards_played = trick.cards_played
        /\ trick'.leading_color = trick.leading_color

C21_PlayRejected == []C21_Inv /\ [][C21_Step]_vars

\* A trick completed before everyone played, and a one-card trick whose
\* leading colour a second card of its player would set.
C21_Witness ==
    /\ trick.is_complete
    /\ Len(trick.cards_played) = 1
    /\ trick.leading_color = PyNone

(***************************************************************************)
(* Card.is_higher_than: the call made in CardSpec.                         *)
(***************************************************************************)
Compared == returned.called = "is_higher_than"

\* The arguments of the call: a.is_higher_than(b, trump, led).
ArgSelf == returned.args[1]
ArgOther == returned.args[2]
ArgTrump == returned.args[3]
ArgLed == returned.args[4]

\* What the call with the two cards exchanged returns.
Converse == is_higher_than(ArgOther, ArgSelf, ArgTrump, ArgLed)

\* C22: is_higher_than is a strict, non-reflexive ordering: for every trump
\* colour, leading colour and cards a, b (two cards of the same kind too),
\* a.is_higher_than(b) and b.is_higher_than(a) are never both true, and
\* a.is_higher_than(a) is never true.
C22_StrictOrder ==
    Compared =>
        /\ ~(returned.value /\ Converse)
        /\ ArgSelf = ArgOther => ~returned.value

\* C23: a Wizard ranks higher than every non-Wizard card and no non-Wizard
\* card ranks higher than a Wizard; a Fool never ranks higher than any card
\* (another Fool included) and every non-Fool card ranks higher than a Fool.
C23_WizardHighFoolLow ==
    Compared =>
        /\ (card_type(ArgSelf) = "WIZARD" /\ card_type(ArgOther) # "WIZARD") => returned.value
        /\ (card_type(ArgSelf) # "WIZARD" /\ card_type(ArgOther) = "WIZARD") => ~returned.value
        /\ card_type(ArgSelf) = "FOOL" => ~returned.value
        /\ (card_type(ArgSelf) # "FOOL" /\ card_type(ArgOther) = "FOOL") => returned.value

\* A Fool compared with another Fool.
C23_Witness ==
    /\ Compared
    /\ card_type(ArgSelf) = "FOOL"
    /\ card_type(ArgOther) = "FOOL"
    /\ ArgSelf # ArgOther
    /\ ~returned.value

\* C24: for two Regular cards: if exactly one has the trump colour, that one
\* ranks higher; else if they share a colour, the one of strictly greater
\* value ranks higher; else if one has the leading colour and the other has
\* neither the trump nor the leading colour, the former ranks higher; in every
\* other case (different colours, neither trump, neither of them the leading
\* colour) is_higher_than is false in both directions.
C24_RegularRanking ==
    (Compared /\ IsRegular(ArgSelf) /\ IsRegular(ArgOther)) =>
        LET a == ArgSelf
            b == ArgOther
            aTrump == color(a) = ArgTrump
            bTrump == color(b) = ArgTrump
        IN  IF aTrump # bTrump
            THEN returned.value = aTrump /\ Converse = bTrump
            ELSE IF color(a) = color(b)
            THEN /\ returned.value = (value(a) > value(b))
                 /\ Converse = (value(b) > value(a))
            ELSE IF color(a) = ArgLed /\ color(b) # ArgTrump /\ color(b) # ArgLed
            THEN returned.value /\ ~Converse
            ELSE IF color(b) = ArgLed /\ color(a) # ArgTrump /\ color(a) # ArgLed
            THEN ~returned.value /\ Converse
            ELSE /\ color(a) # color(b)
                 /\ ~aTrump /\ ~bTrump
                 /\ color(a) # ArgLed /\ color(b) # ArgLed
                 /\ ~returned.value /\ ~Converse

\* A card of the leading colour against a higher card of another colour,
\* with a third colour as trump.
C24_Witness ==
    /\ Compared
    /\ IsRegular(ArgSelf) /\ IsRegular(ArgOther)
    /\ color(ArgSelf) = ArgLed
    /\ color(ArgOther) # ArgLed
    /\ ArgTrump \notin {color(ArgSelf), color(ArgOther), PyNone}
    /\ value(ArgOther) > value(ArgSelf)
    /\ returned.value

(***************************************************************************)
(* Apprentice.get_playable_cards on the hand of HandSpec.                  *)
(***************************************************************************)
Hand == apprentices[0].hand

AllPositions == 0 .. (Len(Hand) - 1)

\* What C25 says get_playable_cards(led) returns for the hand.
C25_Expected(led) ==
    IF led = PyNone \/ ~(\E i \in AllPositions : color(Hand[i + 1]) = led)
    THEN AllPositions
    ELSE {i \in AllPositions :
            \/ color(Hand[i + 1]) = led
            \/ card_type(Hand[i + 1]) \in {"WIZARD", "FOOL"}}

\* C25: get_playable_cards returns every position when led_color is undefined
\* or the hand holds no card of led_color, and otherwise exactly the positions
\* holding a card of led_color or a colourless (Wizard or Fool) card.
C25_Inv == \A led \in OptionalColors : get_playable_cards(Hand, led) = C25_Expected(led)

C25_Step ==
    (returned' # returned /\ returned'.called = "get_playable_cards") =>
        returned'.value = C25_Expected(returned'.args[1])

C25_PlayablePositions == []C25_Inv /\ [][C25_Step]_vars

\* A hand of a card of the led colour, a special card and a card of another
\* colour: the first two positions were returned and the third was not.
C25_Witness ==
    /\ returned.called = "get_playable_cards"
    /\ Len(Hand) = 3
    /\ returned.args[1] \in CardColor \ {"NONE"}
    /\ returned.value = C25_Expected(returned.args[1])
    /\ Cardinality(returned.value) = 2
    /\ \E i \in returned.value : card_type(Hand[i + 1]) \in {"WIZARD", "FOOL"}
    /\ \E i \in returned.value : color(Hand[i + 1]) = returned.args[1]

\* C26: for all hands and led colours the set of playable positions is
\* non-empty whenever the hand is non-empty and empty for an empty hand.
C26_Inv ==
    \A led \in OptionalColors :
        get_playable_cards(Hand, led) = {} <=> Len(Hand) = 0

C26_Step ==
    (returned' # returned /\ returned'.called = "get_playable_cards") =>
        (returned'.value = {} <=> Len(Hand) = 0)

C26_PlayableNonEmpty == []C26_Inv /\ [][C26_Step]_vars

\* A hand of Regular cards, none of the led colour: everything is playable.
C26_Witness ==
    /\ returned.called = "get_playable_cards"
    /\ Len(Hand) >= 2
    /\ \A i \in AllPositions : IsRegular(Hand[i + 1]) /\ color(Hand[i + 1]) # returned.args[1]
    /\ returned.args[1] # PyNone
    /\ returned.value = AllPositions

\* C27: when the first card of a trick is a Wizard, anything goes for the rest
\* of the trick: Round.play_card accepts every hand position of every later
\* player, even when a later Regular card has set a leading colour that the
\* player could follow.
C27_AnythingGoesAfterWizard ==
    (/\ round.phase = "PLAYING"
     /\ Len(Get(round.current_trick).cards_played) >= 1
     /\ card_type(CardAt(Get(round.current_trick), 1)) = "WIZARD") =>
        \A i \in 0 .. (Len(ActingHand) - 1) :
            Round_play_card(S, round.current_apprentice_index, i).ret = "True"

(***************************************************************************)
(* The deal and the trump (DealSpec).                                      *)
(***************************************************************************)
\* The step is the deal: deal_cards moved the round to PREDICTING.
Dealt == round.phase = "DEALING" /\ round'.phase = "PREDICTING"

\* C28: after deal_cards the drawn card determines the trump: when
\* n * round_number is the size of the deck (60) there is no trump card and no
\* trump colour; otherwise one trump card is drawn and the trump colour is its
\* colour if it is Regular, none if it is a Fool, and none, pending the
\* dealer's choice, if it is a Wizard.
C28_Step ==
    Dealt =>
        IF n * round.round_number = NumCards
        THEN /\ round'.trump_card = None
             /\ round'.trump_color = PyNone
             /\ Len(round'.deck) = 0
        ELSE /\ round'.trump_card # None
             /\ Len(round'.deck) = NumCards - n * round.round_number - 1
             /\ Get(round'.trump_card) \notin Range(round'.deck)
             /\ \A a \in Seats : Get(round'.trump_card) \notin Range(apprentices'[a].hand)
             /\ round'.trump_color =
                   IF IsRegular(Get(round'.trump_card))
                   THEN color(Get(round'.trump_card))
                   ELSE PyNone

C28_TrumpFromDrawnCard == [][C28_Step]_vars

\* The last round: every card is in a hand and there is no trump.
C28_Witness ==
    /\ round.phase = "PREDICTING"
    /\ round.round_number = LastRound
    /\ \A a \in Seats : Len(apprentices[a].hand) = LastRound
    /\ round.trump_card = None
    /\ round.trump_color = PyNone

\* The drawn trump card is a Wizard.
WizardTurnedUp ==
    round.trump_card # None /\ card_type(Get(round.trump_card)) = "WIZARD"

\* C29: set_dealer_chosen_trump sets trump_color to the chosen colour only
\* when the phase is PREDICTING and the drawn trump card is a Wizard; in any
\* other phase, without a trump card, or with a Regular or Fool trump card it
\* raises and trump_color is as it was.
C29_Inv ==
    \A col \in CardColor :
        IF round.phase = "PREDICTING" /\ WizardTurnedUp
        THEN set_dealer_chosen_trump(S, col)
                 = Result("ok", [round EXCEPT !.trump_color = col], apprentices)
        ELSE Rejected(set_dealer_chosen_trump(S, col))

C29_Step ==
    (round.phase = "PREDICTING" /\ round'.trump_color # round.trump_color) =>
        /\ WizardTurnedUp
        /\ round'.trump_color \in CardColor
        /\ round' = [round EXCEPT !.trump_color = round'.trump_color]

C29_DealerChoosesOnWizard == []C29_Inv /\ [][C29_Step]_vars

\* The dealer chose a colour after a Wizard turned up.
C29_Witness ==
    /\ round.phase = "PREDICTING"
    /\ WizardTurnedUp
    /\ round.trump_color \in CardColor \ {"NONE"}

\* C30: a play with a hand index out of range (card_index < 0 or >= the size
\* of the acting player's hand) is a precondition violation: Round.play_card,
\* like Apprentice.play_card, signals an error for it, not a boolean
\* rejection, and mutates nothing.
C30_OutOfRangeIsAnError ==
    round.phase = "PLAYING" =>
        \A i \in AllCardIndexes :
            (i < 0 \/ i >= Len(ActingHand)) =>
                /\ Apprentice_play_card(apprentices[round.current_apprentice_index], i).ret
                       = "IndexError"
                /\ Round_play_card(S, round.current_apprentice_index, i).ret
                       \in {"IndexError", "ValueError"}
                /\ NoMutation(Round_play_card(S, round.current_apprentice_index, i))

\* The predictions are over: PLAYING, SCORING or COMPLETE.
PastPredicting == round.phase \in {"PLAYING", "SCORING", "COMPLETE"}

\* The tricks the round has created so far.
TricksCreated ==
    {round.tricks_played[k] : k \in 1..Len(round.tricks_played)}
        \cup (IF round.current_trick = None THEN {} ELSE {Get(round.current_trick)})

\* C31: the trump colour is fixed for the whole round: Round.trump_color never
\* changes once the phase has left PREDICTING, and every Trick created in the
\* round carries that colour, the one Round.trump_color had when the last
\* prediction was recorded; with a Wizard trump card and no colour chosen by
\* then, the whole round is played without trump.
C31_Inv ==
    PastPredicting =>
        /\ \A t \in TricksCreated : t.trump_color = round.trump_color
        /\ (WizardTurnedUp /\ round.trump_color \notin CardColor) =>
              \A t \in TricksCreated : t.trump_color = PyNone

C31_Step ==
    /\ PastPredicting => round'.trump_color = round.trump_color
    /\ (round.phase = "PREDICTING" /\ round'.phase = "PLAYING") =>
          /\ round'.trump_color = round.trump_color
          /\ Get(round'.current_trick).trump_color = round.trump_color

C31_TrumpFixed == []C31_Inv /\ [][C31_Step]_vars

\* Two tricks played under the colour the dealer chose for a Wizard.
C31_Witness ==
    /\ Len(round.tricks_played) = 2
    /\ WizardTurnedUp
    /\ round.trump_color \in CardColor \ {"NONE"}
    /\ \A t \in TricksCreated : t.trump_color = round.trump_color

\* An accepted play: the only steps that change anything in PLAYING.
AcceptedPlay == round.phase = "PLAYING" /\ vars' # vars

\* The trick the step played into, as it is after the step: the current
\* trick, or the last completed one when the play filled it.
TrickPlayedInto ==
    IF Len(round'.tricks_played) > Len(round.tricks_played)
    THEN round'.tricks_played[Len(round'.tricks_played)]
    ELSE Get(round'.current_trick)

\* C32: an accepted Round.play_card(apprentice, i) is one step: exactly the
\* card at position i leaves that player's hand (one card less, the others in
\* their order), the same card is recorded for that player in the current
\* trick, and no other hand, no prediction and no cumulative score changes.
C32_Step ==
    AcceptedPlay =>
        LET a == round.current_apprentice_index
            before == Get(round.current_trick).cards_played
        IN  /\ \E i \in 0 .. (Len(ActingHand) - 1) :
                  /\ Round_play_card(S, a, i).ret = "True"
                  /\ apprentices'[a].hand = RemoveAt(ActingHand, i + 1)
                  /\ TrickPlayedInto.cards_played =
                         Append(before, [apprentice |-> a, card |-> ActingHand[i + 1]])
            /\ Len(apprentices'[a].hand) = Len(ActingHand) - 1
            /\ \A b \in Seats \ {a} : apprentices'[b].hand = apprentices[b].hand
            /\ \A b \in Seats :
                  /\ apprentices'[b].prediction = apprentices[b].prediction
                  /\ apprentices'[b].experience_points = apprentices[b].experience_points

C32_PlayIsOneStep == [][C32_Step]_vars

\* A player with two cards played the second one, which is in a trick.
C32_Witness ==
    /\ round.phase = "PLAYING"
    /\ round.cards_per_apprentice = 2
    /\ Len(round.tricks_played) = 0
    /\ \E a \in Seats :
          /\ HasPlayed(Get(round.current_trick), a)
          /\ Len(apprentices[a].hand) = 1
          /\ \E top \in Tops :
                \E k \in 1 .. (Len(top) - 1) :
                   /\ k % 2 = 1
                   /\ apprentices[a].hand = <<top[k]>>
                   /\ \E j \in 1..Len(Get(round.current_trick).cards_played) :
                         Get(round.current_trick).cards_played[j]
                             = [apprentice |-> a, card |-> top[k + 1]]

\* C33: the winner of a trick is set on resolution: after complete_trick on a
\* trick of at least one card, trick.winner is non-null and is the player
\* complete_trick returned, for every combination of cards, Fools only too.
C33_WinnerSetOnResolution ==
    Resolved =>
        /\ trick.winner # None
        /\ trick.winner = returned.value

\* The cards of a sequence are pairwise different.
NoRepeat(s) == \A i, j \in 1..Len(s) : i # j => s[i] # s[j]

\* C34: deal_cards in DEALING, with empty hands and n * round_number <= 60,
\* gives each player exactly round_number cards, pairwise disjoint and all
\* from the 60-card deck, leaves 60 - n * round_number - (1 if a trump card
\* was drawn, else 0) cards in the deck, and always moves to PREDICTING.
C34_Inv ==
    round.phase = "DEALING" =>
        \A top \in Tops : deal_cards(S, TopFirst(round.deck, top)).round.phase = "PREDICTING"

C34_Step ==
    round.phase = "DEALING" =>
        /\ round'.phase = "PREDICTING"
        /\ \A a \in Seats :
              /\ Len(apprentices'[a].hand) = round.round_number
              /\ NoRepeat(apprentices'[a].hand)
              /\ Range(apprentices'[a].hand) \subseteq Cards
        /\ \A a, b \in Seats :
              a # b => Range(apprentices'[a].hand) \cap Range(apprentices'[b].hand) = {}
        /\ Len(round'.deck) =
              NumCards - n * round.round_number
                  - (IF round'.trump_card # None THEN 1 ELSE 0)

C34_DealGivesDisjointHands == []C34_Inv /\ [][C34_Step]_vars

\* A deal of seven cards each with a trump card drawn.
C34_Witness ==
    /\ round.phase = "PREDICTING"
    /\ round.round_number = 7
    /\ round.trump_card # None
    /\ \A a \in Seats : Len(apprentices[a].hand) = 7
    /\ Len(round.deck) = NumCards - 7 * n - 1

\* The cards recorded in the tricks of the round: one per accepted play.
RECURSIVE PlaysIn(_)
PlaysIn(tricks) ==
    IF Len(tricks) = 0 THEN 0
    ELSE Len(Head(tricks).cards_played) + PlaysIn(Tail(tricks))

PlaysRecorded ==
    PlaysIn(round.tricks_played)
        + (IF round.current_trick # None /\ ~Get(round.current_trick).is_complete
           THEN Len(Get(round.current_trick).cards_played)
           ELSE 0)

\* C35: no deadlock and termination of play: in every reachable PLAYING state
\* the player to act has a non-empty hand and a position Round.play_card
\* accepts; and if the player to act always eventually makes an accepted play
\* the round reaches SCORING, after exactly n * round_number accepted plays.
C35_Inv ==
    /\ round.phase = "PLAYING" =>
          /\ Len(ActingHand) > 0
          /\ \E i \in 0 .. (Len(ActingHand) - 1) :
                Round_play_card(S, round.current_apprentice_index, i).ret = "True"
          /\ PlaysRecorded < n * round.round_number
    /\ round.phase = "SCORING" => PlaysRecorded = n * round.round_number

C35_PlayTerminates ==
    /\ []C35_Inv
    /\ (round.phase = "PLAYING") ~> (round.phase = "SCORING")

\* The round reached SCORING after two tricks of three plays.
C35_Witness ==
    /\ round.phase = "SCORING"
    /\ round.round_number = 2
    /\ PlaysRecorded = 2 * n

\* C36: hand-size invariant: in every reachable PLAYING state each player's
\* hand size equals cards_per_apprentice - len(tricks_played) - (1 if that
\* player has already played in the current trick, else 0); when the phase is
\* SCORING every hand is empty.
C36_HandSize ==
    /\ round.phase = "PLAYING" =>
          \A a \in Seats :
             Len(apprentices[a].hand) =
                round.cards_per_apprentice - Len(round.tricks_played)
                   - (IF HasPlayed(Get(round.current_trick), a) THEN 1 ELSE 0)
    /\ round.phase = "SCORING" =>
          \A a \in Seats : Len(apprentices[a].hand) = 0

\* In the second trick of a round of two, one player has played and holds no
\* card while the others hold one.
C36_Witness ==
    /\ round.phase = "PLAYING"
    /\ round.cards_per_apprentice = 2
    /\ Len(round.tricks_played) = 1
    /\ \E a \in Seats :
          /\ HasPlayed(Get(round.current_trick), a)
          /\ Len(apprentices[a].hand) = 0
          /\ \E b \in Seats : Len(apprentices[b].hand) = 1

\* The cards of a trick, of a list of tricks and of the hands of the seats
\* from a on, as sequences in which a card held twice occurs twice.
CardsOfTrick(t) == [k \in 1..Len(t.cards_played) |-> t.cards_played[k].card]

RECURSIVE CardsOfTricks(_)
CardsOfTricks(tricks) ==
    IF Len(tricks) = 0 THEN <<>>
    ELSE CardsOfTrick(Head(tricks)) \o CardsOfTricks(Tail(tricks))

RECURSIVE CardsInHands(_, _)
CardsInHands(aps, a) ==
    IF a = n THEN <<>> ELSE aps[a].hand \o CardsInHands(aps, a + 1)

\* Every place a card of the round can be in: the remaining deck, the trump
\* card, the hands, the current trick and the completed tricks.  The trick
\* that completes stays the current trick and is appended to tricks_played:
\* it is one trick, counted where it is completed.
Places(rnd, aps) ==
    rnd.deck
       \o (IF rnd.trump_card = None THEN <<>> ELSE <<Get(rnd.trump_card)>>)
       \o CardsInHands(aps, 0)
       \o (IF rnd.current_trick = None \/ Get(rnd.current_trick).is_complete
           THEN <<>>
           ELSE CardsOfTrick(Get(rnd.current_trick)))
       \o CardsOfTricks(rnd.tricks_played)

Conserved(rnd, aps) ==
    /\ Len(Places(rnd, aps)) = NumCards
    /\ Range(Places(rnd, aps)) = Range(Deck_init)

\* C37: card conservation: in every reachable state of a round each of the 60
\* cards of the round's deck is in exactly one place (remaining deck, the
\* trump card, one player's hand, the current trick, or one completed trick);
\* no operation, accepted or rejected, duplicates or loses a card.  Every
\* action of Spec installs what its call leaves behind, whatever the call
\* returns, so the states reached are the outcomes of all calls.
C37_CardConservation == Conserved(round, apprentices)

\* Cards in all five places: a deck, a trump card, a hand, a card in the
\* current trick and a completed trick.
C37_Witness ==
    /\ round.phase = "PLAYING"
    /\ Len(round.deck) > 0
    /\ round.trump_card # None
    /\ \E a \in Seats : Len(apprentices[a].hand) > 0
    /\ Len(Get(round.current_trick).cards_played) > 0
    /\ Len(round.tricks_played) > 0

\* The tricks a player holding hand can be asked to play into: the empty
\* trick, and the tricks the two players before have played one or two of
\* the other cards into.
TricksBefore(hand) ==
    LET others == HandCards \ Range(hand)
        empty == Trick_init(1, PyNone)
        one(c) == Trick_play_card(empty, 1, c).trick
        two(c, d) == Trick_play_card(one(c), 2, d).trick
    IN  {empty} \cup {one(c) : c \in others}
                \cup UNION {{two(c, d) : d \in others \ {c}} : c \in others}

LedByWizard(t) ==
    Len(t.cards_played) > 0 /\ card_type(t.cards_played[1].card) = "WIZARD"

ValidPositions(t, hand) ==
    {i \in 0 .. (Len(hand) - 1) : is_valid_play(t, hand, hand[i + 1])}

\* C38: the two legality checks agree when the trick was not led by a Wizard:
\* for every trick state whose first card is not a Wizard (or that is empty),
\* every hand and every position i of it, Trick.is_valid_play(player, hand[i])
\* is true exactly when i is in player.get_playable_cards(trick.leading_color).
C38_ChecksAgree ==
    \A t \in TricksBefore(apprentices[0].hand) :
       ~LedByWizard(t) =>
          ValidPositions(t, apprentices[0].hand)
             = get_playable_cards(apprentices[0].hand, t.leading_color)

\* get_playable_cards("HUMANS") returned some positions of the hand but not
\* all of them, the positions is_valid_play allows in a trick that a Fool and
\* then a HUMANS card were played into.
C38_Witness ==
    /\ returned.called = "get_playable_cards"
    /\ returned.args = <<"HUMANS">>
    /\ returned.value # {}
    /\ returned.value # 0 .. (Len(apprentices[0].hand) - 1)
    /\ \E t \in TricksBefore(apprentices[0].hand) :
          /\ Len(t.cards_played) = 2
          /\ card_type(t.cards_played[1].card) = "FOOL"
          /\ t.leading_color = "HUMANS"
          /\ ValidPositions(t, apprentices[0].hand) = returned.value

GameRejected(r) == r = GameResult("ValueError", game, round, apprentices)

RoundScoring == round # None /\ round.phase = "SCORING"

\* end_round was accepted: a round was appended to the history.
RoundEnded == game'.round_history # game.round_history

C39_Inv ==
    /\ game.max_rounds = 60 \div n
    /\ game.current_round_number <= game.max_rounds
    /\ game.phase = "SETUP" => game.current_round_number = 0 /\ round = None
    /\ game.phase = "ROUND_IN_PROGRESS" =>
          /\ round.round_number = game.current_round_number
          /\ game.round_history = [k \in 1 .. (game.current_round_number - 1) |-> k]
    /\ game.phase = "GAME_OVER" =>
          /\ game.current_round_number = game.max_rounds
          /\ game.round_history = [k \in 1 .. game.max_rounds |-> k]
          /\ \A a \in Seats, prediction \in (-1) .. (game.max_rounds + 1) :
                GameRejected(Game_make_prediction(G, a, prediction))
          /\ \A a \in Seats, card_index \in (-1) .. game.max_rounds :
                GameRejected(Game_play_card(G, a, card_index))
    /\ \A shuffled \in ShuffleOutcomes(Deck_init) :
          IF RoundScoring
          THEN end_round(G, shuffled).ret = "ok"
          ELSE GameRejected(end_round(G, shuffled))

C39_Step ==
    /\ game'.current_round_number # game.current_round_number =>
          game.phase = "SETUP" \/ RoundEnded
    /\ RoundEnded =>
          /\ RoundScoring
          /\ game'.round_history = Append(game.round_history, game.current_round_number)
          /\ game'.dealer_index = (game.dealer_index + 1) % n
          /\ \A a \in Seats :
                /\ apprentices'[a].prediction = None
                /\ apprentices'[a].tricks_won = 0
                /\ apprentices'[a].experience_points =
                      apprentices[a].experience_points + DeltaOf(apprentices[a])
          /\ IF game.current_round_number < game.max_rounds
             THEN /\ game'.phase = "ROUND_IN_PROGRESS"
                  /\ game'.current_round_number = game.current_round_number + 1
                  /\ round'.round_number = game.current_round_number + 1
                  /\ round'.phase = "PREDICTING"
                  /\ round'.dealer_index = (round.dealer_index + 1) % n
                  /\ round'.tricks_played = <<>>
                  /\ Conserved(round', apprentices')
                  /\ \A a \in Seats :
                        Len(apprentices'[a].hand) = game.current_round_number + 1
             ELSE /\ game'.phase = "GAME_OVER"
                  /\ game'.current_round_number = game.current_round_number
                  /\ round' = [round EXCEPT !.phase = "COMPLETE"]
                  /\ \A a \in Seats : apprentices'[a].hand = <<>>

\* C39: a Game of n players plays exactly 60 \div n rounds: end_round is
\* accepted only when the current round is in SCORING; after scoring round k
\* it either starts round k+1 (already dealt, in PREDICTING, with every
\* player's hand, prediction and tricks_won reset before dealing and the dealer
\* moved one seat on) when k < 60 \div n, or sets the game to GAME_OVER when
\* k = 60 \div n; current_round_number never exceeds max_rounds, and in
\* GAME_OVER make_prediction, play_card and end_round are all rejected.
C39_GamePlaysAllRounds ==
    /\ []C39_Inv
    /\ [][C39_Step]_vars

\* The game is over after its twentieth round, with points scored.
C39_Witness ==
    /\ game.phase = "GAME_OVER"
    /\ Len(game.round_history) = 60 \div n
    /\ round.phase = "COMPLETE"
    /\ \E a \in Seats : apprentices[a].experience_points # 0

====
